---- MODULE Spec2Model ----
(***************************************************************************)
(* Verification model of the moment-scheduling engine of                   *)
(* cirq/circuits/circuit.py (class Circuit).                               *)
(*                                                                         *)
(* A circuit is a Python list of Moments (self._moments).  A Moment is the *)
(* tuple of its operations; an operation is a gate name and the tuple of   *)
(* the qubits it acts on.  Every public mutation of Circuit is one action; *)
(* the action records the call, the moment list before it, the exception   *)
(* it raised (if any) and the value it returned, so that the contract of   *)
(* a call can be stated over one state.                                    *)
(***************************************************************************)
EXTENDS Integers, Sequences, FiniteSets, TLC

VARIABLES
    moments,    \* Circuit._moments of the live circuit
    device,     \* Circuit._device
    frontier,   \* the frontier dict the caller threads through insert_at_frontier
    prev,       \* Circuit._moments as it was when the last call started
    call,       \* the last call: its name and arguments
    outcome,    \* "ok", or the exception the last call raised
    ret,        \* the value the last call returned (None when it has none)
    trace,      \* what the last call did on the way (the indices it picked)
    pc,         \* the caller: "ready" to call, or "returned" from the last call
    threaded,   \* every operation inserted through the frontier, where it is now
    spliced,    \* what _push_frontier returned in the last insert_at_frontier
    state       \* the ternary state (a dict from qutrit to trit) the caller holds

vars == <<moments, device, frontier, prev, call, outcome, ret, trace, pc,
          threaded, spliced, state>>

(***************************************************************************)
(* Bounds of the model.                                                    *)
(***************************************************************************)
\* a call is made only when the moments of the circuit plus the operations
\* (or requests) handed to the call are at most this many
MaxSize == 4

\* reconstruct_moments is run on every list of at most this many items
MaxItems == 4

\* the simulation entry points are run on every circuit of at most this many
\* moments
MaxSimulatedMoments == 2

\* _extract_unitaries is run on every list of at most this many operations
MaxExtracted == 2

\* the depth of nested generators at which the interpreter gives up
RecursionLimit == 3

\* evaluate_ternary_circuit is run on every circuit of at most this many
\* moments
MaxEvaluatedMoments == 2

(***************************************************************************)
(* Qubits, operations.                                                     *)
(***************************************************************************)
Qubits == {"a", "b"}

Op(g, qs) == [gate |-> g, qubits |-> qs]

Xa == Op("X", <<"a">>)
Xb == Op("X", <<"b">>)
CZab == Op("CZ", <<"a", "b">>)

Operations == {Xa, Xb, CZab}

Range(s) == {s[i] : i \in 1..Len(s)}

Max(x, y) == IF x >= y THEN x ELSE y

Min(x, y) == IF x <= y THEN x ELSE y

\* op.qubits as a set
OpQubits(op) == Range(op.qubits)

SeqsUpTo(S, n) == UNION {[1..k -> S] : k \in 0..n}

(***************************************************************************)
(* Moment (cirq/circuits/moment.py).  Moment(operations) keeps the tuple   *)
(* of operations and raises ValueError when two of them share a qubit.     *)
(***************************************************************************)
\* Moment.qubits: every qubit some operation of the moment acts on
MomentQubits(m) == UNION {OpQubits(m[i]) : i \in 1..Len(m)}

\* the constructor's overlap check: len(affected_qubits) != len(self.qubits)
MomentOverlaps(m) ==
    \E i, j \in 1..Len(m) : i < j /\ OpQubits(m[i]) \cap OpQubits(m[j]) # {}

\* Moment.operates_on(qubits)
operates_on(m, qs) == MomentQubits(m) \cap qs # {}

\* Moment.with_operation(op) is Moment(self.operations + (op,)): the tuple it
\* builds, and whether building it raises
with_operation(m, op) == Append(m, op)

with_operation_raises(m, op) == MomentOverlaps(Append(m, op))

\* Moment.without_operations_touching(qubits)
without_operations_touching(m, qs) ==
    SelectSeq(m, LAMBDA o : OpQubits(o) \cap qs = {})

\* every value a Moment can have over Operations
Moments == {m \in SeqsUpTo(Operations, Cardinality(Qubits)) : ~MomentOverlaps(m)}

(***************************************************************************)
(* Device (cirq/devices).  UnconstrainedDevice accepts everything.  The    *)
(* constrained device of the model has single-qubit gates only and runs    *)
(* one operation per moment; like the Device base class it answers         *)
(* can_add_operation_into_moment from the qubits alone.                    *)
(***************************************************************************)
UnconstrainedDevice == "UnconstrainedDevice"

SerialDevice == "SerialDevice"

DeviceMaxOpsPerMoment == 1

validate_operation_raises(dev, op) ==
    dev = SerialDevice /\ Len(op.qubits) > 1

validate_moment_raises(dev, m) ==
    dev = SerialDevice /\
        (Len(m) > DeviceMaxOpsPerMoment \/
         \E i \in 1..Len(m) : validate_operation_raises(dev, m[i]))

\* Device.validate_circuit: every moment is validated
validate_circuit_raises(dev, ms) ==
    \E i \in 1..Len(ms) : validate_moment_raises(dev, ms[i])

\* Device.can_add_operation_into_moment (base class)
can_add_operation_into_moment(dev, op, m) == ~operates_on(m, OpQubits(op))

(***************************************************************************)
(* Python lists.  Moment indices are 0-based as in the source; At reads    *)
(* ms[i] for 0 <= i < len(ms).                                             *)
(***************************************************************************)
At(ms, i) == ms[i + 1]

SetAt(ms, i, m) == [ms EXCEPT ![i + 1] = m]

\* list.insert(index, x): the index is clamped into 0..len, a negative index
\* counting from the end
ListInsertIndex(ms, index) ==
    IF index < 0 THEN Max(index + Len(ms), 0) ELSE Min(index, Len(ms))

ListInsert(ms, index, x) ==
    LET j == ListInsertIndex(ms, index)
    IN  SubSeq(ms, 1, j) \o <<x>> \o SubSeq(ms, j + 1, Len(ms))

\* faulty variant: every negative index raises IndexError
IndexRaises_negative(ms, i) == i >= Len(ms) \/ i < 0

\* ms[i] with a Python index: -len..-1 count from the end, anything outside
\* -len..len-1 raises IndexError
IndexRaises(ms, i) == i >= Len(ms) \/ i < -Len(ms)

PyIndex(ms, i) == IF i < 0 THEN i + Len(ms) ELSE i

RECURSIVE Repeat(_, _)
Repeat(x, n) == IF n <= 0 THEN <<>> ELSE <<x>> \o Repeat(x, n - 1)

(***************************************************************************)
(* Insert strategies (cirq/circuits/insert_strategy.py).                   *)
(***************************************************************************)
InsertStrategy_NEW == "NEW"
InsertStrategy_INLINE == "INLINE"
InsertStrategy_EARLIEST == "EARLIEST"
InsertStrategy_NEW_THEN_INLINE == "NEW_THEN_INLINE"

Strategies ==
    {InsertStrategy_NEW, InsertStrategy_INLINE, InsertStrategy_EARLIEST,
     InsertStrategy_NEW_THEN_INLINE}

(***************************************************************************)
(* Results of a call on a moment list: the list it leaves behind (also     *)
(* when it raises part-way), the exception raised or "ok", the returned    *)
(* value (a tuple of length 0 or 1) and the moment indices written.        *)
(***************************************************************************)
Result(ms, out, r, ps) ==
    [moments |-> ms, outcome |-> out, ret |-> r, placed |-> ps]

OK == "ok"
IndexError == "IndexError"
ValueError == "ValueError"

(***************************************************************************)
(* Circuit: queries used by the insertion strategies.                      *)
(***************************************************************************)
has_op_at(ms, moment_index, qs) ==
    /\ 0 <= moment_index
    /\ moment_index < Len(ms)
    /\ operates_on(At(ms, moment_index), qs)

can_add_op_at(ms, dev, moment_index, op) ==
    IF ~(0 <= moment_index /\ moment_index < Len(ms))
    THEN TRUE
    ELSE can_add_operation_into_moment(dev, op, At(ms, moment_index))

can_commute_past(ms, moment_index, op) ==
    ~operates_on(At(ms, moment_index), OpQubits(op))

\* the while loop of _prev_moment_available, entered with k and last_available
RECURSIVE prev_moment_available_loop(_, _, _, _, _)
prev_moment_available_loop(ms, dev, op, k, last_available) ==
    IF k > 0
    THEN IF ~can_commute_past(ms, k - 1, op)
         THEN last_available
         ELSE prev_moment_available_loop(ms, dev, op, k - 1,
                  IF can_add_op_at(ms, dev, k - 1, op)
                  THEN k - 1 ELSE last_available)
    ELSE last_available

\* faulty variant: the walk backward is not made
prev_moment_available_no_walk(ms, dev, op, end_moment_index) == end_moment_index

prev_moment_available(ms, dev, op, end_moment_index) ==
    prev_moment_available_loop(ms, dev, op, end_moment_index, end_moment_index)

\* _pick_or_create_inserted_op_moment_index: the moment list it leaves (a new
\* Moment() spliced in by the NEW branch) and the index p it returns
pick_new(ms, splitter_index) ==
    [moments |-> ListInsert(ms, splitter_index, <<>>), p |-> splitter_index]

\* faulty variant: INLINE never reuses the moment before the index
pick_inline_always_new(ms, dev, splitter_index, op) ==
    [moments |-> ListInsert(ms, splitter_index, <<>>), p |-> splitter_index]

pick_inline(ms, dev, splitter_index, op) ==
    IF /\ 0 <= splitter_index - 1
       /\ splitter_index - 1 < Len(ms)
       /\ can_add_op_at(ms, dev, splitter_index - 1, op)
    THEN [moments |-> ms, p |-> splitter_index - 1]
    ELSE pick_new(ms, splitter_index)

pick_earliest(ms, dev, splitter_index, op) ==
    IF can_add_op_at(ms, dev, splitter_index, op)
    THEN [moments |-> ms,
          p |-> prev_moment_available(ms, dev, op, splitter_index)]
    ELSE pick_inline(ms, dev, splitter_index, op)

pick_or_create_inserted_op_moment_index(ms, dev, splitter_index, op, strategy) ==
    IF strategy \in {InsertStrategy_NEW, InsertStrategy_NEW_THEN_INLINE}
    THEN pick_new(ms, splitter_index)
    ELSE IF strategy = InsertStrategy_INLINE
    THEN pick_inline(ms, dev, splitter_index, op)
    ELSE pick_earliest(ms, dev, splitter_index, op)

(***************************************************************************)
(* Circuit.insert.                                                         *)
(***************************************************************************)
\* while p >= len(self._moments): self._moments.append(Moment())
PadTo(ms, p) == ms \o Repeat(<<>>, p + 1 - Len(ms))

\* self._moments[p] = self._moments[p].with_operation(op)
write_operation(ms, p, op) == SetAt(ms, p, with_operation(At(ms, p), op))

\* faulty variant: k follows the last write
next_k_last(k, p) == p + 1

\* k = max(k, p + 1)
next_k(k, p) == Max(k, p + 1)

\* the for loop of insert over operations[n..], entered with k and strategy; ps
\* collects the indices p written so far
RECURSIVE insert_loop(_, _, _, _, _, _, _)
insert_loop(ms, dev, operations, n, k, strategy, ps) ==
    IF n > Len(operations)
    THEN Result(ms, OK, <<k>>, ps)
    ELSE LET op == operations[n]
             pick == pick_or_create_inserted_op_moment_index(
                         ms, dev, k, op, strategy)
             p == pick.p
             padded == PadTo(pick.moments, p)
             written == write_operation(padded, p, op)
         IN  IF with_operation_raises(At(padded, p), op)
             THEN Result(padded, ValueError, <<>>, ps)
             ELSE IF validate_moment_raises(dev, At(written, p))
             THEN Result(written, ValueError, <<>>, Append(ps, p))
             ELSE insert_loop(written, dev, operations, n + 1, next_k(k, p),
                      IF strategy = InsertStrategy_NEW_THEN_INLINE
                      THEN InsertStrategy_INLINE ELSE strategy,
                      Append(ps, p))

\* insert(index, moment_or_operation_tree, strategy).  The payload is a Moment
\* ([kind |-> "moment", moment |-> m]) or a flattened operation tree
\* ([kind |-> "ops", ops |-> <<...>>]).
insert(ms, dev, index, payload, strategy) ==
    IF payload.kind = "moment"
    THEN IF validate_moment_raises(dev, payload.moment)
         THEN Result(ms, ValueError, <<>>, <<>>)
         ELSE Result(ListInsert(ms, index, payload.moment), OK,
                     <<index + 1>>, <<ListInsertIndex(ms, index)>>)
    ELSE IF ~(0 <= index /\ index <= Len(ms))
    THEN Result(ms, IndexError, <<>>, <<>>)
    ELSE IF \E i \in 1..Len(payload.ops) :
                validate_operation_raises(dev, payload.ops[i])
    THEN Result(ms, ValueError, <<>>, <<>>)
    ELSE insert_loop(ms, dev, payload.ops, 1, index, strategy, <<>>)

OpsPayload(operations) == [kind |-> "ops", ops |-> operations]

MomentPayload(m) == [kind |-> "moment", moment |-> m]

(***************************************************************************)
(* Circuit.insert_into_range.                                              *)
(***************************************************************************)
\* faulty variant: the scan gives up at the first moment that collides
next_receptive_no_scan(ms, dev, op, i, end) ==
    IF i < end /\ ~can_add_operation_into_moment(dev, op, At(ms, i))
    THEN end
    ELSE i

\* the inner while: the first i' >= i below end whose moment accepts op, or end
RECURSIVE next_receptive(_, _, _, _, _)
next_receptive(ms, dev, op, i, end) ==
    IF i < end /\ ~can_add_operation_into_moment(dev, op, At(ms, i))
    THEN next_receptive(ms, dev, op, i + 1, end)
    ELSE i

\* the outer while over operations[n..] with scan pointer i; when an operation
\* finds no moment before end the rest goes to insert(end, operations[n..])
RECURSIVE insert_into_range_loop(_, _, _, _, _, _, _)
insert_into_range_loop(ms, dev, operations, n, i, end, ps) ==
    IF n > Len(operations)
    THEN Result(ms, OK, <<end>>, ps)
    ELSE LET op == operations[n]
             j == next_receptive(ms, dev, op, i, end)
         IN  IF j >= end
             THEN LET r == insert(ms, dev, end,
                               OpsPayload(SubSeq(operations, n, Len(operations))),
                               InsertStrategy_NEW_THEN_INLINE)
                  IN  Result(r.moments, r.outcome, r.ret, ps \o r.placed)
             ELSE IF with_operation_raises(At(ms, j), op)
             THEN Result(ms, ValueError, <<>>, ps)
             ELSE insert_into_range_loop(write_operation(ms, j, op), dev,
                      operations, n + 1, j, end, Append(ps, j))

insert_into_range(ms, dev, operations, start, end) ==
    IF ~(0 <= start /\ start <= end /\ end <= Len(ms))
    THEN Result(ms, IndexError, <<>>, <<>>)
    ELSE IF \E i \in 1..Len(operations) :
                validate_operation_raises(dev, operations[i])
    THEN Result(ms, ValueError, <<>>, <<>>)
    ELSE insert_into_range_loop(ms, dev, operations, 1, start, end, <<>>)

(***************************************************************************)
(* Circuit.copy and the batch edits.  copy() builds Circuit(self._moments, *)
(* self._device): a new list of the same Moments, validated by the device. *)
(* A batch edit works on the copy and assigns copy._moments to the live    *)
(* circuit in its last statement; when it raises before that, the live     *)
(* list is the one the call started with.                                  *)
(***************************************************************************)
copy_raises(ms, dev) == validate_circuit_raises(dev, ms)

\* Moment(old_op for old_op in copy._moments[i].operations if op != old_op)
moment_without(m, op) == SelectSeq(m, LAMBDA old_op : op # old_op)

\* the for loop of batch_remove over removals[n..] on the working copy
RECURSIVE batch_remove_loop(_, _, _)
batch_remove_loop(copy, removals, n) ==
    IF n > Len(removals)
    THEN [moments |-> copy, outcome |-> OK]
    ELSE LET i == removals[n][1]
             op == removals[n][2]
             j == PyIndex(copy, i)
         IN  IF IndexRaises(copy, i)
             THEN [moments |-> copy, outcome |-> IndexError]
             ELSE IF op \notin Range(At(copy, j))
             THEN [moments |-> copy, outcome |-> ValueError]
             ELSE batch_remove_loop(
                      SetAt(copy, j, moment_without(At(copy, j), op)),
                      removals, n + 1)

\* what a batch edit leaves in the live circuit, given the working copy it
\* reached and the outcome of editing it
commit(ms, dev, edited) ==
    IF edited.outcome # OK
    THEN Result(ms, edited.outcome, <<>>, <<>>)
    ELSE IF validate_circuit_raises(dev, edited.moments)
    THEN Result(ms, ValueError, <<>>, <<>>)
    ELSE Result(edited.moments, OK, <<>>, <<>>)

\* faulty variant: the removals are made on the live list, not on a copy
batch_remove_in_place(ms, dev, removals) ==
    LET edited == batch_remove_loop(ms, removals, 1)
    IN  Result(edited.moments, edited.outcome, <<>>, <<>>)

batch_remove(ms, dev, removals) ==
    IF copy_raises(ms, dev)
    THEN Result(ms, ValueError, <<>>, <<>>)
    ELSE commit(ms, dev, batch_remove_loop(ms, removals, 1))

\* faulty variant: the operation is added to the moment's tuple with no overlap check
RECURSIVE batch_insert_into_loop_unchecked(_, _, _)
batch_insert_into_loop_unchecked(copy, insert_intos, n) ==
    IF n > Len(insert_intos)
    THEN [moments |-> copy, outcome |-> OK]
    ELSE IF IndexRaises(copy, insert_intos[n][1])
    THEN [moments |-> copy, outcome |-> IndexError]
    ELSE batch_insert_into_loop_unchecked(
             write_operation(copy, PyIndex(copy, insert_intos[n][1]),
                             insert_intos[n][2]),
             insert_intos, n + 1)

\* the for loop of batch_insert_into over insert_intos[n..] on the working copy
RECURSIVE batch_insert_into_loop(_, _, _)
batch_insert_into_loop(copy, insert_intos, n) ==
    IF n > Len(insert_intos)
    THEN [moments |-> copy, outcome |-> OK]
    ELSE LET i == insert_intos[n][1]
             op == insert_intos[n][2]
             j == PyIndex(copy, i)
         IN  IF IndexRaises(copy, i)
             THEN [moments |-> copy, outcome |-> IndexError]
             ELSE IF with_operation_raises(At(copy, j), op)
             THEN [moments |-> copy, outcome |-> ValueError]
             ELSE batch_insert_into_loop(write_operation(copy, j, op),
                      insert_intos, n + 1)

\* faulty variant: the insertions are made on the live list, not on a copy
batch_insert_into_in_place(ms, dev, insert_intos) ==
    LET edited == batch_insert_into_loop(ms, insert_intos, 1)
    IN  Result(edited.moments, edited.outcome, <<>>, <<>>)

batch_insert_into(ms, dev, insert_intos) ==
    IF copy_raises(ms, dev)
    THEN Result(ms, ValueError, <<>>, <<>>)
    ELSE commit(ms, dev, batch_insert_into_loop(ms, insert_intos, 1))

\* sorted(insertions, key=lambda e: e[0]): stable, ascending in the index
RECURSIVE sorted_by_index(_)
sorted_by_index(insertions) ==
    IF insertions = <<>>
    THEN <<>>
    ELSE LET e == insertions[Len(insertions)]
             front == sorted_by_index(SubSeq(insertions, 1, Len(insertions) - 1))
             keep == {k \in 1..Len(front) : front[k][1] <= e[1]}
             at == IF keep = {} THEN 0 ELSE CHOOSE k \in keep : \A l \in keep : l <= k
         IN  SubSeq(front, 1, at) \o <<e>> \o SubSeq(front, at + 1, Len(front))

\* shift after copy.insert returned next_index for a request at index i
next_shift(shift, next_index, i) ==
    IF next_index > i THEN shift + 1 ELSE shift

\* the for loop of batch_insert over the sorted requests [n..]; each request
\* is (index, operation).  steps records, per request, the index asked for,
\* the index handed to copy.insert and the length of the copy at that time.
RECURSIVE batch_insert_loop(_, _, _, _, _, _)
batch_insert_loop(copy, dev, requests, n, shift, steps) ==
    IF n > Len(requests)
    THEN [moments |-> copy, outcome |-> OK, steps |-> steps]
    ELSE LET i == requests[n][1]
             op == requests[n][2]
             r == insert(copy, dev, i + shift, OpsPayload(<<op>>),
                         InsertStrategy_EARLIEST)
             step == [i |-> i, op |-> op, at |-> i + shift, len |-> Len(copy)]
         IN  IF r.outcome # OK
             THEN [moments |-> r.moments, outcome |-> r.outcome,
                   steps |-> Append(steps, step)]
             ELSE batch_insert_loop(r.moments, dev, requests, n + 1,
                      next_shift(shift, r.ret[1], i), Append(steps, step))

\* faulty variant: the live list is the list the insertions worked on
batch_insert_commit_in_place(ms, edited) ==
    Result(edited.moments, edited.outcome, <<>>, edited.steps)

\* self._moments = copy._moments, reached only when no insert raised
batch_insert_commit(ms, edited) ==
    IF edited.outcome # OK
    THEN Result(ms, edited.outcome, <<>>, edited.steps)
    ELSE Result(edited.moments, OK, <<>>, edited.steps)

batch_insert(ms, dev, insertions) ==
    IF copy_raises(ms, dev)
    THEN Result(ms, ValueError, <<>>, <<>>)
    ELSE batch_insert_commit(ms,
             batch_insert_loop(ms, dev, sorted_by_index(insertions), 1, 0, <<>>))

(***************************************************************************)
(* Circuit.append and Circuit.clear_operations_touching.                   *)
(***************************************************************************)
append(ms, dev, payload, strategy) == insert(ms, dev, Len(ms), payload, strategy)

\* moment_indices is iterated once; each index in range is rewritten alone
clear_operations_touching(ms, qs, moment_indices) ==
    Result([k \in 1..Len(ms) |->
                IF (k - 1) \in moment_indices
                THEN without_operations_touching(ms[k], qs)
                ELSE ms[k]],
           OK, <<>>, <<>>)

(***************************************************************************)
(* Circuit.insert_at_frontier.  A frontier is a defaultdict(lambda: 0):    *)
(* keys are the qubits it holds an entry for, val its value on every       *)
(* qubit (0 where there is no entry, as frontier[q] and .get(q, 0) read).  *)
(***************************************************************************)
Frontier(keys, val) == [keys |-> keys, val |-> val]

EmptyFrontier == Frontier({}, [q \in Qubits |-> 0])

MaxOver(S) == CHOOSE x \in S : \A y \in S : y <= x

MinOver(S) == CHOOSE x \in S : \A y \in S : x <= y

\* next_moment_operating_on([q], start), len(self._moments) when there is none
next_moment_operating_on(ms, q, start) ==
    LET hits == {m \in start..(Len(ms) - 1) : has_op_at(ms, m, {q})}
    IN  IF hits = {} THEN Len(ms) ELSE MinOver(hits)

next_moments_operating_on(ms, qs, start) ==
    Frontier(qs, [q \in Qubits |->
                     IF q \in qs THEN next_moment_operating_on(ms, q, start) ELSE 0])

\* the for loop of _pick_inserted_ops_moment_indices over operations[n..]
RECURSIVE pick_inserted_ops_moment_indices(_, _, _, _, _)
pick_inserted_ops_moment_indices(operations, n, start, fr, moment_indices) ==
    IF n > Len(operations)
    THEN [moment_indices |-> moment_indices, frontier |-> fr]
    ELSE LET op == operations[n]
             op_start == Max(start, MaxOver({fr.val[q] : q \in OpQubits(op)}))
         IN  pick_inserted_ops_moment_indices(operations, n + 1, start,
                 Frontier(fr.keys \cup OpQubits(op),
                          [q \in Qubits |->
                              IF q \in OpQubits(op)
                              THEN Max(fr.val[q], op_start + 1)
                              ELSE fr.val[q]]),
                 Append(moment_indices, op_start))

\* faulty variant: no moment is spliced in
push_frontier_no_splice(ms, early_frontier, late_frontier) ==
    [moments |-> ms, frontier |-> early_frontier,
     insert_index |-> 0, n_new_moments |-> 0]

\* faulty variant: as many moments are spliced in as the early frontier is
\* high, whatever room the circuit has after start
push_frontier_no_room(ms, early_frontier, late_frontier) ==
    LET update_qubits == early_frontier.keys \ late_frontier.keys
        n_new_moments ==
            IF late_frontier.keys # {}
            THEN MaxOver({early_frontier.val[q] : q \in late_frontier.keys})
            ELSE 0
        insert_index == MinOver({late_frontier.val[q] : q \in late_frontier.keys})
    IN  IF n_new_moments > 0
        THEN [moments |-> SubSeq(ms, 1, insert_index)
                              \o Repeat(<<>>, n_new_moments)
                              \o SubSeq(ms, insert_index + 1, Len(ms)),
              frontier |-> Frontier(early_frontier.keys,
                  [q \in Qubits |->
                      IF q \in update_qubits /\ early_frontier.val[q] > insert_index
                      THEN early_frontier.val[q] + n_new_moments
                      ELSE early_frontier.val[q]]),
              insert_index |-> insert_index,
              n_new_moments |-> n_new_moments]
        ELSE [moments |-> ms, frontier |-> early_frontier,
              insert_index |-> 0, n_new_moments |-> 0]

\* _push_frontier(early_frontier, late_frontier) with update_qubits = None
push_frontier(ms, early_frontier, late_frontier) ==
    LET update_qubits == early_frontier.keys \ late_frontier.keys
        n_new_moments ==
            IF late_frontier.keys # {}
            THEN MaxOver({early_frontier.val[q] - late_frontier.val[q] :
                             q \in late_frontier.keys})
            ELSE 0
        insert_index == MinOver({late_frontier.val[q] : q \in late_frontier.keys})
    IN  IF n_new_moments > 0
        THEN [moments |-> SubSeq(ms, 1, insert_index)
                              \o Repeat(<<>>, n_new_moments)
                              \o SubSeq(ms, insert_index + 1, Len(ms)),
              frontier |-> Frontier(early_frontier.keys,
                  [q \in Qubits |->
                      IF q \in update_qubits /\ early_frontier.val[q] > insert_index
                      THEN early_frontier.val[q] + n_new_moments
                      ELSE early_frontier.val[q]]),
              insert_index |-> insert_index,
              n_new_moments |-> n_new_moments]
        ELSE [moments |-> ms, frontier |-> early_frontier,
              insert_index |-> 0, n_new_moments |-> 0]

\* the moment indices in the order moment_to_ops first meets them
RECURSIVE first_occurrences(_)
first_occurrences(xs) ==
    IF xs = <<>>
    THEN <<>>
    ELSE LET front == first_occurrences(SubSeq(xs, 1, Len(xs) - 1))
             x == xs[Len(xs)]
         IN  IF x \in Range(front) THEN front ELSE Append(front, x)

\* moment_to_ops[moment_index]
RECURSIVE ops_for_moment(_, _, _, _)
ops_for_moment(operations, insertion_indices, moment_index, n) ==
    IF n > Len(operations)
    THEN <<>>
    ELSE (IF insertion_indices[n] = moment_index THEN <<operations[n]>> ELSE <<>>)
             \o ops_for_moment(operations, insertion_indices, moment_index, n + 1)

\* the last loop of _insert_operations: each moment is rebuilt by
\* Moment(old operations + new operations), which raises on an overlap
RECURSIVE insert_operations_loop(_, _, _, _, _)
insert_operations_loop(ms, operations, insertion_indices, order, n) ==
    IF n > Len(order)
    THEN [moments |-> ms, outcome |-> OK]
    ELSE LET moment_index == order[n]
             rebuilt == At(ms, moment_index)
                 \o ops_for_moment(operations, insertion_indices, moment_index, 1)
         IN  IF MomentOverlaps(rebuilt)
             THEN [moments |-> ms, outcome |-> ValueError]
             ELSE insert_operations_loop(SetAt(ms, moment_index, rebuilt),
                      operations, insertion_indices, order, n + 1)

insert_operations(ms, operations, insertion_indices) ==
    IF Len(operations) # Len(insertion_indices)
    THEN [moments |-> ms, outcome |-> ValueError]
    ELSE insert_operations_loop(
             PadTo(ms, MaxOver(Range(insertion_indices))),
             operations, insertion_indices,
             first_occurrences(insertion_indices), 1)

AllQubits(operations) == UNION {OpQubits(operations[i]) : i \in 1..Len(operations)}

\* the qubits any(frontier[q] > start for q in qubits) can have read when it
\* stops: all of them when none is after start, otherwise one that is after
\* start and any of the others that the set's iteration order put before it
frontier_reads(fr, qs, start) ==
    LET after == {q \in qs : fr.val[q] > start}
    IN  IF after = {}
        THEN {qs}
        ELSE {before \cup {q} : before \in SUBSET (qs \ after), q \in after}

\* insert_at_frontier(operations, start, frontier); reads is the set of qubits
\* the frontier check read (each read of a defaultdict creates the entry)
insert_at_frontier(ms, operations, start, fr, reads) ==
    LET qs == AllQubits(operations)
        read == Frontier(fr.keys \cup reads, fr.val)
        picked == pick_inserted_ops_moment_indices(operations, 1, start, read, <<>>)
        pushed == push_frontier(ms, picked.frontier,
                                next_moments_operating_on(ms, qs, start))
        inserted == insert_operations(pushed.moments, operations,
                                      picked.moment_indices)
    IN  IF operations = <<>>
        THEN [moments |-> ms, outcome |-> OK, frontier |-> fr, placed |-> <<>>,
              spliced |-> <<0, 0>>]
        ELSE IF \E q \in qs : fr.val[q] > start
        THEN [moments |-> ms, outcome |-> ValueError, frontier |-> read,
              placed |-> <<>>, spliced |-> <<0, 0>>]
        ELSE [moments |-> inserted.moments, outcome |-> inserted.outcome,
              frontier |-> pushed.frontier, placed |-> picked.moment_indices,
              spliced |-> <<pushed.insert_index, pushed.n_new_moments>>]

(***************************************************************************)
(* reconstruct_moments(mat_and_qs_list).  An item is a pair (mat, qs); the  *)
(* function never looks at mat.  The model carries, next to mat, the place  *)
(* `at` the item has in the input list, so that two equal pairs are told    *)
(* apart in the batches.                                                   *)
(***************************************************************************)
Item(mat, qs) == [mat |-> mat, qs |-> qs]

Sites == {"A", "B", "C"}

Items ==
    {Item("U", <<"A", "B">>), Item("V", <<"B">>), Item("W", <<"C">>),
     Item("X", <<"A">>), Item("Y", <<"B", "C">>)}

\* faulty variant: an item that is put off does not block its sites
RECURSIVE reconstruct_round_no_block(_, _, _, _, _)
reconstruct_round_no_block(list, n, blocked_qs, moment, list_next) ==
    IF n > Len(list)
    THEN [moment |-> moment, list_next |-> list_next]
    ELSE LET qs == Range(list[n].qs)
         IN  IF qs \cap blocked_qs # {}
             THEN reconstruct_round_no_block(list, n + 1, blocked_qs,
                      moment, Append(list_next, list[n]))
             ELSE reconstruct_round_no_block(list, n + 1, blocked_qs \cup qs,
                      Append(moment, list[n]), list_next)

\* faulty variant: an item that is put off blocks every site
RECURSIVE reconstruct_round_block_all(_, _, _, _, _)
reconstruct_round_block_all(list, n, blocked_qs, moment, list_next) ==
    IF n > Len(list)
    THEN [moment |-> moment, list_next |-> list_next]
    ELSE LET qs == Range(list[n].qs)
         IN  IF qs \cap blocked_qs # {}
             THEN reconstruct_round_block_all(list, n + 1, Sites,
                      moment, Append(list_next, list[n]))
             ELSE reconstruct_round_block_all(list, n + 1, blocked_qs \cup qs,
                      Append(moment, list[n]), list_next)

\* faulty variant: an item that is put off is not kept for the next round
RECURSIVE reconstruct_round_forgetting(_, _, _, _, _)
reconstruct_round_forgetting(list, n, blocked_qs, moment, list_next) ==
    IF n > Len(list)
    THEN [moment |-> moment, list_next |-> list_next]
    ELSE LET qs == Range(list[n].qs)
         IN  IF qs \cap blocked_qs # {}
             THEN reconstruct_round_forgetting(list, n + 1, blocked_qs \cup qs,
                      moment, IF list_next = <<>> THEN <<list[n]>> ELSE list_next)
             ELSE reconstruct_round_forgetting(list, n + 1, blocked_qs \cup qs,
                      Append(moment, list[n]), list_next)

\* the for loop over mat_and_qs_list[n..]: the batch (moment) it fills and
\* the items it puts off to the next round (mat_and_qs_list_next)
RECURSIVE reconstruct_round(_, _, _, _, _)
reconstruct_round(list, n, blocked_qs, moment, list_next) ==
    IF n > Len(list)
    THEN [moment |-> moment, list_next |-> list_next]
    ELSE LET qs == Range(list[n].qs)
         IN  IF qs \cap blocked_qs # {}
             THEN reconstruct_round(list, n + 1, blocked_qs \cup qs,
                      moment, Append(list_next, list[n]))
             ELSE reconstruct_round(list, n + 1, blocked_qs \cup qs,
                      Append(moment, list[n]), list_next)

\* the while loop: one round per batch until nothing is left
RECURSIVE reconstruct_loop(_, _)
reconstruct_loop(list, batches) ==
    IF Len(list) > 0
    THEN LET round == reconstruct_round(list, 1, {}, <<>>, <<>>)
         IN  reconstruct_loop(round.list_next, Append(batches, round.moment))
    ELSE batches

reconstruct_moments(mat_and_qs_list) == reconstruct_loop(mat_and_qs_list, <<>>)

\* the input list with the place of every item, and the batches without it
WithPlaces(list) ==
    [i \in 1..Len(list) |-> [mat |-> list[i].mat, qs |-> list[i].qs, at |-> i]]

WithoutPlaces(batches) ==
    [b \in 1..Len(batches) |->
        [k \in 1..Len(batches[b]) |-> Item(batches[b][k].mat, batches[b][k].qs)]]

PlacesOf(batches) ==
    [b \in 1..Len(batches) |-> [k \in 1..Len(batches[b]) |-> batches[b][k].at]]

(***************************************************************************)
(* Simulation.  What the gate of an operation offers (a matrix through     *)
(* protocols.unitary, a decomposition through CompositeOperation, the      *)
(* measurement of MeasurementGate) is given per gate:                      *)
(*   X, CZ   a known matrix on one, two qutrits                            *)
(*   CCZ     a known matrix on three qutrits                               *)
(*   M, MI   a measurement; the invert_mask of MI is set on every qubit     *)
(*   T       no matrix, no decomposition, not a measurement                *)
(*   CX      no matrix; decomposes into X on its target, CZ, X on target   *)
(*   D, E    no matrix; D decomposes into X and E, E into T                *)
(*   XD      a known matrix, and a decomposition into T                    *)
(*   F       no matrix; decomposes into CX, XD on its target, MI on its    *)
(*           target, M on its control                                      *)
(*   L       no matrix; decomposes into X and L itself                     *)
(*   P, Q    no matrix; P decomposes into Q, Q into P                      *)
(* A matrix is kept as the gate it belongs to and its size (the number of  *)
(* its entries, 9 per qutrit pair of axes).                                *)
(***************************************************************************)
None == "None"

TypeError == "TypeError"
RecursionError == "RecursionError"
AssertionError == "AssertionError"

QUDIT_LEVELS == 3

Ma == Op("M", <<"a">>)
MIb == Op("MI", <<"b">>)
Ta == Op("T", <<"a">>)
CXab == Op("CX", <<"a", "b">>)
Db == Op("D", <<"b">>)
XDb == Op("XD", <<"b">>)
CCZabc == Op("CCZ", <<"a", "b", "c">>)
Fab == Op("F", <<"a", "b">>)
La == Op("L", <<"a">>)
Pb == Op("P", <<"b">>)

SimulatedOperations == {Xa, Xb, CZab, Ma, MIb, Ta, CXab, Db, XDb, CCZabc}

\* the operations _extract_unitaries is run on
ExtractedOperations == SimulatedOperations \cup {Fab, La, Pb}

\* every qubit a simulated circuit may have an axis for, in QubitOrder.DEFAULT
SimulatedQubits == <<"a", "b", "c">>

RECURSIVE Power(_, _)
Power(x, n) == IF n = 0 THEN 1 ELSE x * Power(x, n - 1)

\* protocols.unitary(op, None) is not None
has_unitary(op) == op.gate \in {"X", "CZ", "XD", "CCZ"}

\* protocols.unitary(op, None) when there is one
unitary(op) ==
    [gate |-> op.gate, size |-> Power(QUDIT_LEVELS, 2 * Len(op.qubits))]

\* ext.try_cast(ops.CompositeOperation, op) is not None
is_composite(op) == op.gate \in {"CX", "D", "E", "XD", "F", "L", "P", "Q"}

\* list(ops.flatten_op_tree(composite_op.default_decompose()))
default_decompose(op) ==
    IF op.gate = "CX"
    THEN <<Op("X", <<op.qubits[2]>>), Op("CZ", op.qubits), Op("X", <<op.qubits[2]>>)>>
    ELSE IF op.gate = "D"
    THEN <<Op("X", op.qubits), Op("E", op.qubits)>>
    ELSE IF op.gate = "F"
    THEN <<Op("CX", op.qubits), Op("XD", <<op.qubits[2]>>),
           Op("MI", <<op.qubits[2]>>), Op("M", <<op.qubits[1]>>)>>
    ELSE IF op.gate = "L"
    THEN <<Op("X", op.qubits), Op("L", op.qubits)>>
    ELSE IF op.gate = "P"
    THEN <<Op("Q", op.qubits)>>
    ELSE IF op.gate = "Q"
    THEN <<Op("P", op.qubits)>>
    ELSE <<Op("T", op.qubits)>>

\* ops.MeasurementGate.is_measurement(op)
is_measurement(op) == op.gate \in {"M", "MI"}

\* gate.invert_mask of a measurement
invert_mask(op) == [i \in 1..Len(op.qubits) |-> op.gate = "MI"]

\* Circuit.all_operations: moment by moment, in the order of each moment
RECURSIVE all_operations(_)
all_operations(ms) ==
    IF ms = <<>> THEN <<>> ELSE Head(ms) \o all_operations(Tail(ms))

\* Circuit.all_qubits
all_qubits(ms) == UNION {MomentQubits(ms[i]) : i \in 1..Len(ms)}

\* faulty variant: the measurements are not looked at
are_all_measurements_terminal_unchecked(ms) == TRUE

\* Circuit.are_all_measurements_terminal
are_all_measurements_terminal(ms) ==
    \A i \in 0..(Len(ms) - 1) : \A n \in 1..Len(At(ms, i)) :
        is_measurement(At(ms, i)[n]) =>
            ~\E j \in (i + 1)..(Len(ms) - 1) :
                 has_op_at(ms, j, OpQubits(At(ms, i)[n]))

\* QubitOrder.DEFAULT.order_for(qubits)
order_for(qs) == SelectSeq(SimulatedQubits, LAMBDA q : q \in qs)

\* faulty variant: an X for every qubit of the measurement, whatever its
\* invert_mask
measurement_flips_unmasked(op) ==
    [k \in 1..Len(op.qubits) |->
        Item(unitary(Op("X", <<op.qubits[k]>>)), <<op.qubits[k]>>)]

\* the X matrices a measurement yields for the set entries of its invert_mask
measurement_flips(op) ==
    LET flipped == SelectSeq([i \in 1..Len(op.qubits) |-> i],
                             LAMBDA i : invert_mask(op)[i])
    IN  [k \in 1..Len(flipped) |->
            Item(unitary(Op("X", <<op.qubits[flipped[k]]>>)),
                 <<op.qubits[flipped[k]]>>)]

\* faulty variant: an operation without matrix, decomposition or measurement
\* is passed over
RECURSIVE extract_unitaries_skipping_at(_, _)
extract_unitaries_skipping_at(operations, depth) ==
    IF depth > RecursionLimit
    THEN [outcome |-> RecursionError, items |-> <<>>]
    ELSE IF operations = <<>>
    THEN [outcome |-> OK, items |-> <<>>]
    ELSE LET op == Head(operations)
             first ==
                 IF has_unitary(op)
                 THEN [outcome |-> OK, items |-> <<Item(unitary(op), op.qubits)>>]
                 ELSE IF is_composite(op)
                 THEN extract_unitaries_skipping_at(default_decompose(op), depth + 1)
                 ELSE IF is_measurement(op)
                 THEN [outcome |-> OK, items |-> measurement_flips(op)]
                 ELSE [outcome |-> OK, items |-> <<>>]
             rest == extract_unitaries_skipping_at(Tail(operations), depth)
         IN  IF first.outcome # OK
             THEN first
             ELSE [outcome |-> rest.outcome, items |-> first.items \o rest.items]

extract_unitaries_skipping(operations) ==
    extract_unitaries_skipping_at(operations, 0)

\* _extract_unitaries(operations, ext) at a depth of nested generators, run
\* to its end as list(...) does: the pairs it yields and, when it raises, the
\* pairs yielded before that.  The interpreter raises RecursionError when
\* the generators nest deeper than its limit.
RECURSIVE extract_unitaries_at(_, _)
extract_unitaries_at(operations, depth) ==
    IF depth > RecursionLimit
    THEN [outcome |-> RecursionError, items |-> <<>>]
    ELSE IF operations = <<>>
    THEN [outcome |-> OK, items |-> <<>>]
    ELSE LET op == Head(operations)
             first ==
                 IF has_unitary(op)
                 THEN [outcome |-> OK, items |-> <<Item(unitary(op), op.qubits)>>]
                 ELSE IF is_composite(op)
                 THEN extract_unitaries_at(default_decompose(op), depth + 1)
                 ELSE IF is_measurement(op)
                 THEN [outcome |-> OK, items |-> measurement_flips(op)]
                 ELSE [outcome |-> TypeError, items |-> <<>>]
             rest == extract_unitaries_at(Tail(operations), depth)
         IN  IF first.outcome # OK
             THEN [outcome |-> first.outcome, items |-> first.items]
             ELSE [outcome |-> rest.outcome, items |-> first.items \o rest.items]

\* list(_extract_unitaries(operations, ext))
extract_unitaries(operations) == extract_unitaries_at(operations, 0)

(***************************************************************************)
(* Noise models: class NoiseChannel and its subclasses.  A class is the    *)
(* record of the attributes an instance of it has, its own and those it    *)
(* inherits.  A weight is kept in units of 10^-9 (a weight that is not 0   *)
(* as at least one unit).  An operator is kept as the list it is taken     *)
(* from, its index there and norm2: the squared norm, in the same units,   *)
(* of what it makes of a unit state that has the qutrit at level 0, 1, 2.  *)
(***************************************************************************)
One == 1000000000

AttributeError == "AttributeError"

\* sum(weights)
RECURSIVE sum(_)
sum(weights) == IF weights = <<>> THEN 0 ELSE Head(weights) + sum(Tail(weights))

\* a list of n unitary matrices (products of X3, Z3, Y3, V3, np.eye(3))
Unitaries(list, n) ==
    [i \in 1..n |-> [list |-> list, index |-> i - 1, norm2 |-> <<One, One, One>>]]

\* the three matrices of amplitude damping with gamma = (gamma_1, gamma_2)
AmplitudeDamping(list, gamma) ==
    <<[list |-> list, index |-> 0,
       norm2 |-> <<One, One - gamma[1], One - gamma[2]>>],
      [list |-> list, index |-> 1, norm2 |-> <<0, gamma[1], 0>>],
      [list |-> list, index |-> 2, norm2 |-> <<0, 0, gamma[2]>>]>>

NoiseChannel ==
    [single_qutrit_kraus_operators |-> <<>>,
     single_qutrit_kraus_operator_weights |-> <<>>,
     two_qutrit_kraus_operators |-> <<>>,
     two_qutrit_kraus_operator_weights |-> <<>>,
     idle_channel_operators |-> <<>>,
     long_idle_channel_weights |-> <<>>,
     short_idle_channel_weights |-> <<>>]

GenericQutritErrors ==
    [single_qutrit_kraus_operators |->
         Unitaries("single_qutrit_kraus_operators", 9),
     two_qutrit_kraus_operators |->
         Unitaries("two_qutrit_kraus_operators", 81)] @@ NoiseChannel

\* the body the subclasses of GenericQutritErrors share: p_1, p_2, the gammas
\* of the short and of the long idle time
SuperconductingQCErrors(p_1, p_2, gamma_short, gamma_long) ==
    [single_qutrit_kraus_operator_weights |-> <<One - 8 * p_1>> \o Repeat(p_1, 8),
     two_qutrit_kraus_operator_weights |-> <<One - 80 * p_2>> \o Repeat(p_2, 80),
     short_idle_channel_operators |->
         AmplitudeDamping("short_idle_channel_operators", gamma_short),
     long_idle_channel_operators |->
         AmplitudeDamping("long_idle_channel_operators", gamma_long)]
        @@ GenericQutritErrors

DressedQutritErrors ==
    [idle_channel_operators |-> Unitaries("idle_channel_operators", 3),
     long_idle_channel_weights |-> <<22862, 22862, 999954277>>,
     short_idle_channel_weights |-> <<1, 1, 999999999>>,
     single_qutrit_kraus_operators |->
         Unitaries("single_qutrit_kraus_operators", 9),
     single_qutrit_kraus_operator_weights |->
         <<808, 836, 449, 449, 808, 836, 808, 836, 999846625>>,
     two_qutrit_kraus_operators |->
         Unitaries("two_qutrit_kraus_operators", 81),
     two_qutrit_kraus_operator_weights |->
         <<1, 1, 1, 1, 1, 1, 1, 1, 21252>>
         \o <<1, 1, 1, 1, 1, 1, 1, 1, 21987>>
         \o <<1, 1, 1, 1, 1, 1, 1, 1, 11817>>
         \o <<1, 1, 1, 1, 1, 1, 1, 1, 11817>>
         \o <<1, 1, 1, 1, 1, 1, 1, 1, 21252>>
         \o <<1, 1, 1, 1, 1, 1, 1, 1, 21987>>
         \o <<1, 1, 1, 1, 1, 1, 1, 1, 21252>>
         \o <<1, 1, 1, 1, 1, 1, 1, 1, 21987>>
         \o <<21252, 21987, 11817, 11817, 21252, 21987, 21252, 21987, 999693273>>]

BareQutritErrors ==
    [idle_channel_operators |-> Unitaries("idle_channel_operators", 3),
     long_idle_channel_weights |-> <<0, 77510, 999922490>>,
     short_idle_channel_weights |-> <<0, 2, 999999998>>,
     single_qutrit_kraus_operators |->
         Unitaries("single_qutrit_kraus_operators", 9),
     single_qutrit_kraus_operator_weights |->
         <<808, 836, 449, 449, 808, 836, 808, 836, 999846625>>,
     two_qutrit_kraus_operators |->
         Unitaries("two_qutrit_kraus_operators", 81),
     two_qutrit_kraus_operator_weights |->
         <<1, 1, 1, 1, 1, 1, 1, 1, 21252>>
         \o <<1, 1, 1, 1, 1, 1, 1, 1, 21987>>
         \o <<1, 1, 1, 1, 1, 1, 1, 1, 11817>>
         \o <<1, 1, 1, 1, 1, 1, 1, 1, 11817>>
         \o <<1, 1, 1, 1, 1, 1, 1, 1, 21252>>
         \o <<1, 1, 1, 1, 1, 1, 1, 1, 21987>>
         \o <<1, 1, 1, 1, 1, 1, 1, 1, 21252>>
         \o <<1, 1, 1, 1, 1, 1, 1, 1, 21987>>
         \o <<21252, 21987, 11817, 11817, 21252, 21987, 21252, 21987, 999693273>>]

CurrentSuperconductingQCErrors ==
    SuperconductingQCErrors(333333, 666667,
        <<999500, 1998001>>, <<2995504, 5982036>>)

FutureSuperconductingQCErrors ==
    SuperconductingQCErrors(33333, 66667,
        <<99995, 199980>>, <<299955, 599820>>)

FutureSuperconductingQCErrorsBetterT1 ==
    SuperconductingQCErrors(33333, 66667,
        <<10000, 20000>>, <<30000, 59998>>)

FutureSuperconductingQCErrorsBetterGates ==
    SuperconductingQCErrors(3333, 6667,
        <<99995, 199980>>, <<299955, 599820>>)

FutureSuperconductingQCErrorsBetterT1AndGates ==
    SuperconductingQCErrors(3333, 6667,
        <<10000, 20000>>, <<30000, 59998>>)
PauliDepolarizing == NoiseChannel

NoiseModelClasses ==
    {"NoiseChannel", "GenericQutritErrors", "CurrentSuperconductingQCErrors",
     "FutureSuperconductingQCErrors", "FutureSuperconductingQCErrorsBetterT1",
     "FutureSuperconductingQCErrorsBetterGates",
     "FutureSuperconductingQCErrorsBetterT1AndGates", "DressedQutritErrors",
     "BareQutritErrors", "PauliDepolarizing"}

\* an instance of the class: no class has an __init__, cls() runs nothing
instance(cls) ==
    CASE cls = "NoiseChannel" -> NoiseChannel
      [] cls = "GenericQutritErrors" -> GenericQutritErrors
      [] cls = "CurrentSuperconductingQCErrors" -> CurrentSuperconductingQCErrors
      [] cls = "FutureSuperconductingQCErrors" -> FutureSuperconductingQCErrors
      [] cls = "FutureSuperconductingQCErrorsBetterT1" ->
             FutureSuperconductingQCErrorsBetterT1
      [] cls = "FutureSuperconductingQCErrorsBetterGates" ->
             FutureSuperconductingQCErrorsBetterGates
      [] cls = "FutureSuperconductingQCErrorsBetterT1AndGates" ->
             FutureSuperconductingQCErrorsBetterT1AndGates
      [] cls = "DressedQutritErrors" -> DressedQutritErrors
      [] cls = "BareQutritErrors" -> BareQutritErrors
      [] cls = "PauliDepolarizing" -> PauliDepolarizing

\* the classes whose idle methods are those of GenericQutritErrors
isinstance_GenericQutritErrors(cls) ==
    cls \in {"GenericQutritErrors", "CurrentSuperconductingQCErrors",
             "FutureSuperconductingQCErrors",
             "FutureSuperconductingQCErrorsBetterT1",
             "FutureSuperconductingQCErrorsBetterGates",
             "FutureSuperconductingQCErrorsBetterT1AndGates"}

\* the assert of weighted_draw fails
weighted_draw_raises(weights) ==
    ~(sum(weights) > 999 * (One \div 1000) /\ sum(weights) < 1001 * (One \div 1000))

\* the indices np.random.choice(len(weights), p = weights) may return
weighted_draw(weights) == {i \in 0..(Len(weights) - 1) : weights[i + 1] > 0}

\* what a pick method comes to: the exception it raises or "ok", the index
\* drawn, the operator returned (a tuple of length 0 or 1), the list the
\* weights are or are computed from, and the number of trial applications
Picked(outcome_, index, operator, weighted, trials) ==
    [outcome |-> outcome_, index |-> index, operator |-> operator,
     weighted |-> weighted, trials |-> trials]

\* index = weighted_draw(weights); return operators[index]: every way it can
\* end
draw(weights, operators, weighted, trials) ==
    IF weighted_draw_raises(weights)
    THEN {Picked(AssertionError, -1, <<>>, weighted, trials)}
    ELSE {IF index < Len(operators)
          THEN Picked(OK, index, <<operators[index + 1]>>, weighted, trials)
          ELSE Picked(IndexError, index, <<>>, weighted, trials) :
              index \in weighted_draw(weights)}

pick_single_qutrit_gate_channel(self) ==
    draw(self.single_qutrit_kraus_operator_weights,
         self.single_qutrit_kraus_operators,
         "single_qutrit_kraus_operator_weights", 0)

pick_two_qutrit_gate_channel(self) ==
    draw(self.two_qutrit_kraus_operator_weights,
         self.two_qutrit_kraus_operators,
         "two_qutrit_kraus_operator_weights", 0)

NoiseChannel_pick_long_idle_channel(self) ==
    draw(self.long_idle_channel_weights, self.idle_channel_operators,
         "long_idle_channel_weights", 0)

NoiseChannel_pick_short_idle_channel(self) ==
    draw(self.short_idle_channel_weights, self.idle_channel_operators,
         "short_idle_channel_weights", 0)

\* the weights GenericQutritErrors computes: one trial application of every
\* operator of the list to the state, whose qutrit is at the level, into the
\* buffer, and the squared norm of the buffer
trial_weights(operators, level) ==
    [i \in 1..Len(operators) |-> operators[i].norm2[level + 1]]

GenericQutritErrors_pick_long_idle_channel(self, level) ==
    IF "long_idle_channel_operators" \notin DOMAIN self
    THEN {Picked(AttributeError, -1, <<>>, "long_idle_channel_operators", 0)}
    ELSE draw(trial_weights(self.long_idle_channel_operators, level),
              self.short_idle_channel_operators,
              "long_idle_channel_operators",
              Len(self.long_idle_channel_operators))

GenericQutritErrors_pick_short_idle_channel(self, level) ==
    IF "short_idle_channel_operators" \notin DOMAIN self
    THEN {Picked(AttributeError, -1, <<>>, "short_idle_channel_operators", 0)}
    ELSE draw(trial_weights(self.short_idle_channel_operators, level),
              self.long_idle_channel_operators,
              "short_idle_channel_operators",
              Len(self.short_idle_channel_operators))

\* noise_model.pick_long_idle_channel(state, buffer, index) of an instance of
\* cls, the qutrit of the axis being at the level in the state
pick_long_idle_channel(cls, level) ==
    IF isinstance_GenericQutritErrors(cls)
    THEN GenericQutritErrors_pick_long_idle_channel(instance(cls), level)
    ELSE NoiseChannel_pick_long_idle_channel(instance(cls))

pick_short_idle_channel(cls, level) ==
    IF isinstance_GenericQutritErrors(cls)
    THEN GenericQutritErrors_pick_short_idle_channel(instance(cls), level)
    ELSE NoiseChannel_pick_short_idle_channel(instance(cls))

\* one elementary application on the state tensor: the unitary of a gate, a
\* gate error or an idle channel picked from the noise model (by: the method
\* that picked it), or the renormalisation after an idle channel; on: the
\* axes it acts on; batch: the batch (1, 2, ...) it belongs to
Application(kind, batch, by, on) ==
    [kind |-> kind, batch |-> batch, by |-> by, on |-> on]

\* qubit_map[q]
qubit_index(qubits, q) == CHOOSE i \in 0..(Len(qubits) - 1) : qubits[i + 1] = q

\* the two tensors of a run: the one the argument state is (the live state at
\* entry) and the one np.zeros makes for buffer
StateTensor == "state"
BufferTensor == "np.zeros"

\* what the names state and buffer are bound to
Tensors(state_, buffer_) == [state |-> state_, buffer |-> buffer_]

\* faulty variant: state = buffer; buffer = state
swap_aliased(tensors) == Tensors(tensors.buffer, tensors.buffer)

\* state, buffer = buffer, state
swap(tensors) == Tensors(tensors.buffer, tensors.state)

\* an application where it is made: state is the tensor the name state is
\* bound to, out the tensor written (out = buffer, or buffer /= ...),
\* operators the lists of the noise model the operator may come from, trials
\* the trial applications the pick method made before it, swap whether
\* state, buffer = buffer, state is the next statement
Applied(application, tensors, operators, trials, swapped) ==
    application @@ [state |-> tensors.state, out |-> tensors.buffer,
                    operators |-> operators, trials |-> trials,
                    swap |-> swapped]

\* the lists the operator of a pick may come from, the exception of a pick
\* that cannot return
operators_of(picked) ==
    {p.operator[1].list : p \in {x \in picked : x.outcome = OK}}

pick_raises(picked) == \E p \in picked : p.outcome # OK

pick_raised(picked) == (CHOOSE p \in picked : p.outcome # OK).outcome

\* the trial applications of a pick method that was handed state and buffer
trials_of(picked, tensors) ==
    LET p == CHOOSE x \in picked : TRUE
    IN  [i \in 1..p.trials |->
            [operators |-> p.weighted, index |-> i - 1,
             state |-> tensors.state, out |-> tensors.buffer]]

\* faulty variant: a matrix that is not of one qutrit gets the two-qutrit
\* error, whatever its size
gate_error_channel_unchecked(size) ==
    IF size = 9
    THEN "pick_single_qutrit_gate_channel"
    ELSE "pick_two_qutrit_gate_channel"

\* the method that picks the gate error for a matrix of this size, None when
\* assert False is reached
gate_error_channel(size) ==
    IF size = 9
    THEN "pick_single_qutrit_gate_channel"
    ELSE IF size = 81
    THEN "pick_two_qutrit_gate_channel"
    ELSE None

\* the inner for loop over moment[n..]: each gate, then its gate error
RECURSIVE apply_gates(_, _, _, _, _, _)
apply_gates(moment, n, batch, qubits, noise_model, tensors) ==
    IF n > Len(moment)
    THEN [outcome |-> OK, applied |-> <<>>, tensors |-> tensors]
    ELSE LET mat == moment[n].mat
             qs == moment[n].qs
             indices == [k \in 1..Len(qs) |-> qubit_index(qubits, qs[k])]
             gate == Applied(Application("unitary", batch, mat.gate, indices),
                             tensors, {}, <<>>, TRUE)
             by == gate_error_channel(mat.size)
             gate_error(picked) ==
                 Applied(Application("gate_error", batch, by, indices),
                         swap(tensors), operators_of(picked), <<>>, TRUE)
             then(picked, rest) ==
                 IF by = None
                 THEN [outcome |-> AssertionError, applied |-> <<gate>>,
                       tensors |-> swap(tensors)]
                 ELSE IF pick_raises(picked)
                 THEN [outcome |-> pick_raised(picked), applied |-> <<gate>>,
                       tensors |-> swap(tensors)]
                 ELSE [outcome |-> rest.outcome,
                       applied |-> <<gate, gate_error(picked)>> \o rest.applied,
                       tensors |-> rest.tensors]
         IN  then(IF by = "pick_single_qutrit_gate_channel"
                  THEN pick_single_qutrit_gate_channel(instance(noise_model))
                  ELSE pick_two_qutrit_gate_channel(instance(noise_model)),
                  apply_gates(moment, n + 1, batch, qubits, noise_model,
                              swap(swap(tensors))))

\* faulty variant: long only for a qubit that a two-qubit gate of the batch
\* acted on
idle_channel_per_qubit(moment, qubits, index) ==
    IF \E n \in 1..Len(moment) :
           Len(moment[n].qs) = 2 /\ qubits[index + 1] \in Range(moment[n].qs)
    THEN "pick_long_idle_channel"
    ELSE "pick_short_idle_channel"

\* the method of the noise model that picks the idle channel of a batch
idle_channel(moment, qubits, index) ==
    IF \E n \in 1..Len(moment) : Len(moment[n].qs) = 2
    THEN "pick_long_idle_channel"
    ELSE "pick_short_idle_channel"

\* faulty variant: an idle channel only for the qubits a gate of the batch
\* acted on
RECURSIVE apply_idles_touched(_, _, _, _, _, _)
apply_idles_touched(moment, index, batch, qubits, noise_model, tensors) ==
    IF index >= Len(qubits)
    THEN [outcome |-> OK, applied |-> <<>>, tensors |-> tensors]
    ELSE IF ~\E n \in 1..Len(moment) : qubits[index + 1] \in Range(moment[n].qs)
    THEN apply_idles_touched(moment, index + 1, batch, qubits, noise_model,
                             tensors)
    ELSE LET by == idle_channel(moment, qubits, index)
             idle(picked) ==
                 Applied(Application("idle", batch, by, <<index>>),
                         tensors, operators_of(picked),
                         trials_of(picked, tensors), FALSE)
             norm == Applied(Application("renormalize", batch, "norm", <<index>>),
                             tensors, {}, <<>>, TRUE)
             then(picked, rest) ==
                 [outcome |-> rest.outcome,
                  applied |-> <<idle(picked), norm>> \o rest.applied,
                  tensors |-> rest.tensors]
         IN  then(UNION {IF by = "pick_long_idle_channel"
                         THEN pick_long_idle_channel(noise_model, level)
                         ELSE pick_short_idle_channel(noise_model, level) :
                             level \in 0..(QUDIT_LEVELS - 1)},
                  apply_idles_touched(moment, index + 1, batch, qubits,
                                      noise_model, swap(tensors)))

\* the idle loop over range(len(qubits)) from index on; the level of the
\* qutrit in the state is not followed, the pick is over every level
RECURSIVE apply_idles(_, _, _, _, _, _)
apply_idles(moment, index, batch, qubits, noise_model, tensors) ==
    IF index >= Len(qubits)
    THEN [outcome |-> OK, applied |-> <<>>, tensors |-> tensors]
    ELSE LET by == idle_channel(moment, qubits, index)
             idle(picked) ==
                 Applied(Application("idle", batch, by, <<index>>),
                         tensors, operators_of(picked),
                         trials_of(picked, tensors), FALSE)
             norm == Applied(Application("renormalize", batch, "norm", <<index>>),
                             tensors, {}, <<>>, TRUE)
             then(picked, rest) ==
                 IF pick_raises(picked)
                 THEN [outcome |-> pick_raised(picked), applied |-> <<>>,
                       tensors |-> tensors]
                 ELSE [outcome |-> rest.outcome,
                       applied |-> <<idle(picked), norm>> \o rest.applied,
                       tensors |-> rest.tensors]
         IN  then(UNION {IF by = "pick_long_idle_channel"
                         THEN pick_long_idle_channel(noise_model, level)
                         ELSE pick_short_idle_channel(noise_model, level) :
                             level \in 0..(QUDIT_LEVELS - 1)},
                  apply_idles(moment, index + 1, batch, qubits, noise_model,
                              swap(tensors)))

\* the outer for loop over moments[batch..]
RECURSIVE apply_moments(_, _, _, _, _)
apply_moments(batches, batch, qubits, noise_model, tensors) ==
    IF batch > Len(batches)
    THEN [outcome |-> OK, applied |-> <<>>, tensors |-> tensors]
    ELSE LET joined(gates, idles, rest) ==
                 [outcome |-> rest.outcome,
                  applied |-> gates.applied \o idles.applied \o rest.applied,
                  tensors |-> rest.tensors]
             after_idles(gates, idles) ==
                 IF idles.outcome # OK
                 THEN [outcome |-> idles.outcome,
                       applied |-> gates.applied \o idles.applied,
                       tensors |-> idles.tensors]
                 ELSE joined(gates, idles,
                             apply_moments(batches, batch + 1, qubits,
                                           noise_model, idles.tensors))
             after_gates(gates) ==
                 IF gates.outcome # OK
                 THEN gates
                 ELSE after_idles(gates,
                                  apply_idles(batches[batch], 0, batch, qubits,
                                              noise_model, gates.tensors))
         IN  after_gates(apply_gates(batches[batch], 1, batch, qubits,
                                     noise_model, tensors))

\* _apply_unitary_circuit(circuit, state, qubits, ext, dtype, noise_model);
\* tensors.state of the result is the tensor it returns
apply_unitary_circuit(ms, qubits, noise_model) ==
    LET extracted == extract_unitaries(all_operations(ms))
        tensors == Tensors(StateTensor, BufferTensor)
    IN  IF noise_model = None
        THEN [outcome |-> AssertionError, applied |-> <<>>, tensors |-> tensors]
        ELSE IF extracted.outcome # OK
        THEN [outcome |-> extracted.outcome, applied |-> <<>>,
              tensors |-> tensors]
        ELSE apply_moments(reconstruct_moments(extracted.items), 1, qubits,
                           noise_model, tensors)

\* what both entry points check before they simulate
measurements_rejected(ms, ignore_terminal_measurements) ==
    \/ /\ ~ignore_terminal_measurements
       /\ \E n \in 1..Len(all_operations(ms)) : is_measurement(all_operations(ms)[n])
    \/ ~are_all_measurements_terminal(ms)

\* Circuit.to_unitary_matrix(qubits_that_should_be_present,
\* ignore_terminal_measurements); it has no noise model to hand on
to_unitary_matrix(ms, present, ignore_terminal_measurements) ==
    IF measurements_rejected(ms, ignore_terminal_measurements)
    THEN Result(ms, ValueError, <<>>, <<>>)
    ELSE LET returned(result) ==
                 Result(ms, result.outcome,
                        IF result.outcome = OK
                        THEN <<"matrix", result.tensors.state>> ELSE <<>>,
                        result.applied)
         IN  returned(apply_unitary_circuit(
                          ms, order_for(all_qubits(ms) \cup present), None))

\* Circuit.apply_unitary_effect_to_state(initial_state = 0,
\* qubits_that_should_be_present, ignore_terminal_measurements, noise_model).
\* With no qubit at all the state has one entry and the swap of the two
\* entries of the target state reads index 1.
apply_unitary_effect_to_state(ms, present, ignore_terminal_measurements, noise_model) ==
    LET qs == order_for(all_qubits(ms) \cup present)
        returned(result) ==
            Result(ms, result.outcome,
                   IF result.outcome = OK
                   THEN <<"fidelity", result.tensors.state>> ELSE <<>>,
                   result.applied)
    IN  IF measurements_rejected(ms, ignore_terminal_measurements)
        THEN Result(ms, ValueError, <<>>, <<>>)
        ELSE IF Len(qs) = 0
        THEN Result(ms, IndexError, <<>>, <<>>)
        ELSE returned(apply_unitary_circuit(ms, qs, noise_model))

(***************************************************************************)
(* Classical ternary evaluation (cirq/qutrit/raw_types.py, evaluate.py).   *)
(* A ternary state is a dict from qutrit to trit.  The gates:              *)
(*   PlusOne, F01   of common_gates.py, on one qutrit                      *)
(*   SwapQubits     of common_gates.py, on two qutrits                     *)
(*   C1PlusOne      ControlledTernaryGate(PlusOne, ((1,),))                *)
(*   TernaryLogicGate, controlled_ternary_gate.C1F01                       *)
(*                  gates that inherit applied_to_trits of the base class  *)
(*   Short          a TernaryLogicGate whose applied_to_trits returns one  *)
(*                  trit less than it is given                             *)
(*   Wide           a TernaryLogicGate on two qutrits whose                *)
(*                  applied_to_trits returns [0, 3]                        *)
(*   Seq            a composite gate whose operation is no                 *)
(*                  TernaryLogicGateOperation; it decomposes into PlusOne  *)
(*                  on its first qutrit and C1PlusOne                      *)
(***************************************************************************)
KeyError == "KeyError"
UnboundLocalError == "UnboundLocalError"
NotImplementedError == "NotImplementedError"

TernaryStates == [Qubits -> 0..(QUDIT_LEVELS - 1)]

\* applied_to_trits of the gates that are no ControlledTernaryGate
base_applied_to_trits(gate, trits) ==
    CASE gate = "PlusOne" -> <<(trits[1] + 1) % 3>>
      [] gate = "F01" -> <<(trits[1] * 2 + 1) % 3>>
      [] gate = "SwapQubits" -> <<trits[2], trits[1]>>

\* applied_to_trits as the subclasses Short and Wide of TernaryLogicGate
\* override it
custom_applied_to_trits(gate, trits) ==
    CASE gate = "Short" -> SubSeq(trits, 1, Len(trits) - 1)
      [] gate = "Wide" -> <<0, 3>>

\* ControlledTernaryGate(base_gate, control_values).applied_to_trits(trits)
ControlledTernaryGate_applied_to_trits(base_gate, control_values, trits) ==
    LET n == Len(control_values)
    IN  IF \A k \in 1..n : trits[k] \in control_values[k]
        THEN SubSeq(trits, 1, n)
             \o base_applied_to_trits(base_gate, SubSeq(trits, n + 1, Len(trits)))
        ELSE trits

\* TernaryLogicGate.applied_to_trits of the base class raises
\* NotImplementedError; the gates that do not override it
applied_to_trits_raises(gate) ==
    gate \in {"TernaryLogicGate", "controlled_ternary_gate.C1F01"}

\* gate.applied_to_trits(trits) of a gate that overrides it
applied_to_trits(gate, trits) ==
    IF gate = "C1PlusOne"
    THEN ControlledTernaryGate_applied_to_trits("PlusOne", <<{1}>>, trits)
    ELSE IF gate \in {"Short", "Wide"}
    THEN custom_applied_to_trits(gate, trits)
    ELSE base_applied_to_trits(gate, trits)

\* the for loop over zip(self.qubits, new_trits) from the k-th pair on
RECURSIVE write_trits(_, _, _, _)
write_trits(qubits, new_trits, k, st) ==
    IF k > Len(qubits)
    THEN [outcome |-> OK, state |-> st]
    ELSE IF new_trits[k] \notin 0..2
    THEN [outcome |-> AssertionError, state |-> st]
    ELSE write_trits(qubits, new_trits, k + 1,
                     [st EXCEPT ![qubits[k]] = new_trits[k]])

\* TernaryLogicGateOperation.apply_to_ternary_state(state): the exception it
\* raises or "ok", and the dict as it leaves it
apply_to_ternary_state(op, st) ==
    IF Len(op.qubits) # Cardinality(Range(op.qubits))
    THEN [outcome |-> AssertionError, state |-> st]
    ELSE IF \E k \in 1..Len(op.qubits) : op.qubits[k] \notin DOMAIN st
    THEN [outcome |-> KeyError, state |-> st]
    ELSE IF applied_to_trits_raises(op.gate)
    THEN [outcome |-> NotImplementedError, state |-> st]
    ELSE LET trits == [k \in 1..Len(op.qubits) |-> st[op.qubits[k]]]
             new_trits == applied_to_trits(op.gate, trits)
         IN  IF Len(trits) # Len(new_trits)
             THEN [outcome |-> AssertionError, state |-> st]
             ELSE write_trits(op.qubits, new_trits, 1, st)

\* hasattr(op, 'apply_to_ternary_state'): the operation of every
\* TernaryLogicGate has it, whether or not the gate overrides applied_to_trits
has_apply_to_ternary_state(op) ==
    op.gate \in {"PlusOne", "F01", "SwapQubits", "C1PlusOne", "Short", "Wide",
                 "TernaryLogicGate", "controlled_ternary_gate.C1F01"}

\* list(ops.flatten_op_tree(op.default_decompose())) of an operation that has
\* no apply_to_ternary_state
ternary_default_decompose(op) ==
    <<Op("PlusOne", <<op.qubits[1]>>), Op("C1PlusOne", op.qubits)>>

\* default_ternary_state(qubits)
default_ternary_state(qubits) == [q \in qubits |-> 0]

\* _evaluate_ternary_circuit(op_tree, state) on the flattened op_tree
RECURSIVE evaluate_ternary_op_tree(_, _)
evaluate_ternary_op_tree(operations, st) ==
    IF operations = <<>>
    THEN [outcome |-> OK, state |-> st]
    ELSE LET op == Head(operations)
             first == IF has_apply_to_ternary_state(op)
                      THEN apply_to_ternary_state(op, st)
                      ELSE evaluate_ternary_op_tree(
                               ternary_default_decompose(op), st)
         IN  IF first.outcome # OK
             THEN first
             ELSE evaluate_ternary_op_tree(Tail(operations), first.state)

\* evaluate_ternary_circuit(circuit, input_state); input_state is <<>> for
\* None and <<d>> for the dict d.  The result has the outcome, the value
\* returned and the caller's dict as the call leaves it.  With input_state
\* None the name state is never bound and the call of
\* _evaluate_ternary_circuit raises UnboundLocalError.
evaluate_ternary_circuit(circuit, input_state) ==
    IF input_state = <<>>
    THEN [outcome |-> UnboundLocalError, ret |-> <<>>, input_state |-> <<>>]
    ELSE LET copy == input_state[1]
             evaluated == evaluate_ternary_op_tree(all_operations(circuit), copy)
         IN  [outcome |-> evaluated.outcome,
              ret |-> IF evaluated.outcome = OK THEN <<evaluated.state>> ELSE <<>>,
              input_state |-> input_state]

(***************************************************************************)
(* The device setter and the in-place operators of Circuit: device =,      *)
(* __setitem__, __delitem__, __iadd__ and __imul__.  A key is an int, a    *)
(* slice start:stop (no step), an object with __index__ that is no int     *)
(* (as numpy.int64 is) or something else the list rejects; a value that is *)
(* handed where a Moment or a list of Moments is expected is "other", the  *)
(* int 5 (written "5").                                                    *)
(***************************************************************************)
IntKey(index) == [kind |-> "int", index |-> index]

SliceKey(start, stop) == [kind |-> "slice", start |-> start, stop |-> stop]

IndexKey(index) == [kind |-> "index", index |-> index]

OtherKey == [kind |-> "other"]

MomentValue(m) == [kind |-> "moment", moment |-> m]

MomentsValue(ms) == [kind |-> "moments", moments |-> ms]

OtherValue == [kind |-> "other", item |-> "5"]

\* the object a value stands for, as the list stores it
item_of(value) ==
    CASE value.kind = "moment" -> value.moment
      [] value.kind = "moments" -> value.moments
      [] OTHER -> value.item

CircuitValue(ms, dev) == [kind |-> "circuit", moments |-> ms, device |-> dev]

\* slice(start, stop).indices(len): a negative bound counts from the end and
\* both are clamped into 0..len
slice_bound(ms, i) ==
    IF i < 0 THEN Max(i + Len(ms), 0) ELSE Min(i, Len(ms))

\* list[start:stop] = value; an empty range at start when stop is before it
slice_assign(ms, key, value) ==
    LET start == slice_bound(ms, key.start)
        stop == Max(slice_bound(ms, key.stop), start)
    IN  SubSeq(ms, 1, start) \o value \o SubSeq(ms, stop + 1, Len(ms))

\* circuit.device = new_device: the outcome and the device afterwards
set_device(ms, dev, new_device) ==
    IF validate_circuit_raises(new_device, ms)
    THEN [outcome |-> ValueError, device |-> dev]
    ELSE [outcome |-> OK, device |-> new_device]

\* Circuit.__setitem__(key, value).  A key that is no int and no slice takes
\* neither isinstance branch: the value is neither checked nor validated
\* before the list is handed key and value.
setitem(ms, dev, key, value) ==
    IF key.kind = "int" /\ value.kind # "moment"
    THEN Result(ms, TypeError, <<>>, <<>>)
    ELSE IF key.kind = "int" /\ validate_moment_raises(dev, value.moment)
    THEN Result(ms, ValueError, <<>>, <<>>)
    ELSE IF key.kind = "slice" /\ value.kind # "moments"
    THEN Result(ms, TypeError, <<>>, <<>>)
    ELSE IF key.kind = "slice" /\ validate_circuit_raises(dev, value.moments)
    THEN Result(ms, ValueError, <<>>, <<>>)
    ELSE IF key.kind = "int"
    THEN IF IndexRaises(ms, key.index)
         THEN Result(ms, IndexError, <<>>, <<>>)
         ELSE Result(SetAt(ms, PyIndex(ms, key.index), value.moment), OK,
                     <<>>, <<>>)
    ELSE IF key.kind = "slice"
    THEN Result(slice_assign(ms, key, value.moments), OK, <<>>, <<>>)
    ELSE IF key.kind = "index"
    THEN IF IndexRaises(ms, key.index)
         THEN Result(ms, IndexError, <<>>, <<>>)
         ELSE Result(SetAt(ms, PyIndex(ms, key.index), item_of(value)), OK,
                     <<>>, <<>>)
    ELSE Result(ms, TypeError, <<>>, <<>>)

\* Circuit.__delitem__(key)
delitem(ms, key) ==
    IF key.kind \in {"int", "index"}
    THEN IF IndexRaises(ms, key.index)
         THEN Result(ms, IndexError, <<>>, <<>>)
         ELSE Result(SubSeq(ms, 1, PyIndex(ms, key.index))
                         \o SubSeq(ms, PyIndex(ms, key.index) + 2, Len(ms)),
                     OK, <<>>, <<>>)
    ELSE IF key.kind = "slice"
    THEN Result(slice_assign(ms, key, <<>>), OK, <<>>, <<>>)
    ELSE Result(ms, TypeError, <<>>, <<>>)

\* circuit += other; with other no Circuit __iadd__ returns NotImplemented
\* and the statement raises TypeError
iadd(ms, dev, other) ==
    IF other.kind # "circuit"
    THEN Result(ms, TypeError, <<>>, <<>>)
    ELSE IF other.device # dev /\ other.device # UnconstrainedDevice
    THEN Result(ms, ValueError, <<>>, <<>>)
    ELSE IF validate_circuit_raises(dev, other.moments)
    THEN Result(ms, ValueError, <<>>, <<>>)
    ELSE Result(ms \o other.moments, OK, <<>>, <<>>)

\* list * n
RECURSIVE ListTimes(_, _)
ListTimes(ms, n) == IF n <= 0 THEN <<>> ELSE ms \o ListTimes(ms, n - 1)

\* circuit *= repetitions; <<>> stands for a repetitions that is no int:
\* __imul__ returns NotImplemented and the statement raises TypeError
imul(ms, repetitions) ==
    IF repetitions = <<>>
    THEN Result(ms, TypeError, <<>>, <<>>)
    ELSE Result(ListTimes(ms, repetitions[1]), OK, <<>>, <<>>)

(***************************************************************************)
(* The state machine: a circuit is created empty on a device; its caller   *)
(* makes one call at a time and looks at what came back before the next.   *)
(* The frontier is the dict a caller threads through successive            *)
(* insert_at_frontier calls; it is dropped before any other mutation.      *)
(***************************************************************************)
Indices(ms) == -1..(Len(ms) + 1)

\* the operation lists a call may be handed on a circuit of these moments
OpLists(ms) == SeqsUpTo(Operations, MaxSize - Len(ms))

Payloads(ms) ==
    {OpsPayload(os) : os \in OpLists(ms)} \cup {MomentPayload(m) : m \in Moments}

\* requests of the batch edits: (moment index, operation) pairs
Pairs(ms) == (-1..Len(ms)) \X Operations

Requests(ms) == SeqsUpTo(Pairs(ms), MaxSize - Len(ms))

InitWith(devs) ==
    /\ moments = <<>>
    /\ device \in devs
    /\ frontier = EmptyFrontier
    /\ prev = <<>>
    /\ call = [name |-> "Circuit"]
    /\ outcome = OK
    /\ ret = <<>>
    /\ trace = <<>>
    /\ pc = "ready"
    /\ threaded = <<>>
    /\ spliced = <<0, 0>>
    /\ state = <<>>

Init == InitWith({UnconstrainedDevice})

InitDevice == InitWith({SerialDevice})

\* a call may start: the caller is ready and the circuit within the bound
Ready ==
    /\ pc = "ready"
    /\ Len(moments) < MaxSize

\* the bookkeeping every call shares
Called(c, r) ==
    /\ pc' = "returned"
    /\ prev' = moments
    /\ call' = c
    /\ moments' = r.moments
    /\ outcome' = r.outcome
    /\ ret' = r.ret
    /\ trace' = r.placed
    /\ UNCHANGED <<device, state>>

DoInsert ==
    /\ Ready
    /\ frontier = EmptyFrontier
    /\ \E index \in Indices(moments), payload \in Payloads(moments),
          strategy \in Strategies :
           /\ payload.kind = "moment" => strategy = InsertStrategy_NEW_THEN_INLINE
           /\ Called([name |-> "insert", index |-> index, payload |-> payload,
                      strategy |-> strategy],
                     insert(moments, device, index, payload, strategy))
    /\ UNCHANGED <<frontier, threaded, spliced>>

DoAppend ==
    /\ Ready
    /\ frontier = EmptyFrontier
    /\ \E payload \in Payloads(moments), strategy \in Strategies :
           /\ payload.kind = "moment" => strategy = InsertStrategy_NEW_THEN_INLINE
           /\ Called([name |-> "append", payload |-> payload,
                      strategy |-> strategy],
                     [append(moments, device, payload, strategy)
                          EXCEPT !.ret = <<>>])
    /\ UNCHANGED <<frontier, threaded, spliced>>

DoInsertIntoRange ==
    /\ Ready
    /\ frontier = EmptyFrontier
    /\ \E operations \in OpLists(moments), start \in Indices(moments),
          end \in Indices(moments) :
           Called([name |-> "insert_into_range", operations |-> operations,
                   start |-> start, end |-> end],
                  insert_into_range(moments, device, operations, start, end))
    /\ UNCHANGED <<frontier, threaded, spliced>>

\* the record of the operations a caller has inserted through its frontier:
\* one entry per operation, in the order inserted, with the moment it is in.
\* Moments spliced in at insert_index move the entries at or after it.
thread_moved(th, insert_index, n_new_moments) ==
    [k \in 1..Len(th) |->
        IF th[k].at >= insert_index
        THEN [th[k] EXCEPT !.at = @ + n_new_moments]
        ELSE th[k]]

\* the entries of one call.  While the frontier has only been used from the
\* empty circuit on with start = 0, an entry also tells which of these calls
\* inserted it (1, 2, ...); otherwise its call number is 0.
thread_of_call(th, operations, placed, start, length) ==
    [k \in 1..Len(operations) |->
        [op |-> operations[k], at |-> placed[k],
         call |-> IF start # 0 THEN 0
                  ELSE IF th = <<>> THEN (IF length = 0 THEN 1 ELSE 0)
                  ELSE IF th[Len(th)].call = 0 THEN 0
                  ELSE th[Len(th)].call + 1]]

DoInsertAtFrontier ==
    /\ Ready
    /\ \E operations \in OpLists(moments), start \in Indices(moments) :
        \E reads \in frontier_reads(frontier, AllQubits(operations), start) :
            LET r == insert_at_frontier(moments, operations, start, frontier, reads)
            IN  /\ Called([name |-> "insert_at_frontier",
                           operations |-> operations, start |-> start,
                           frontier |-> frontier],
                          Result(r.moments, r.outcome, <<>>, r.placed))
                /\ frontier' = r.frontier
                /\ spliced' = r.spliced
                /\ threaded' =
                       IF r.outcome = OK
                       THEN thread_moved(threaded, r.spliced[1], r.spliced[2])
                                \o thread_of_call(threaded, operations, r.placed,
                                                  start, Len(moments))
                       ELSE threaded

DoBatchRemove ==
    /\ Ready
    /\ frontier = EmptyFrontier
    /\ \E removals \in Requests(moments) :
           Called([name |-> "batch_remove", removals |-> removals],
                  batch_remove(moments, device, removals))
    /\ UNCHANGED <<frontier, threaded, spliced>>

DoBatchInsertInto ==
    /\ Ready
    /\ frontier = EmptyFrontier
    /\ \E insert_intos \in Requests(moments) :
           Called([name |-> "batch_insert_into", insert_intos |-> insert_intos],
                  batch_insert_into(moments, device, insert_intos))
    /\ UNCHANGED <<frontier, threaded, spliced>>

DoBatchInsert ==
    /\ Ready
    /\ frontier = EmptyFrontier
    /\ \E insertions \in Requests(moments) :
           Called([name |-> "batch_insert", insertions |-> insertions],
                  batch_insert(moments, device, insertions))
    /\ UNCHANGED <<frontier, threaded, spliced>>

DoClearOperationsTouching ==
    /\ Ready
    /\ frontier = EmptyFrontier
    /\ \E qs \in SUBSET Qubits, moment_indices \in SUBSET Indices(moments) :
           /\ Len(moments) + Cardinality(moment_indices) <= MaxSize
           /\ Called([name |-> "clear_operations_touching", qubits |-> qs,
                      moment_indices |-> moment_indices],
                     clear_operations_touching(moments, qs, moment_indices))
    /\ UNCHANGED <<frontier, threaded, spliced>>

\* the keys and values __setitem__ and __delitem__ are handed
Keys(ms) ==
    {IntKey(i) : i \in Indices(ms)}
        \cup {IndexKey(i) : i \in Indices(ms)}
        \cup {SliceKey(i, j) : i \in Indices(ms), j \in Indices(ms)}
        \cup {OtherKey}

\* an object with __index__ is handed Moments only: a circuit that holds
\* something else than Moments is not followed
Values(key) ==
    IF key.kind = "slice"
    THEN {MomentsValue(v) : v \in SeqsUpTo(Moments, 1)} \cup {OtherValue}
    ELSE IF key.kind = "index"
    THEN {MomentValue(m) : m \in Moments}
    ELSE {MomentValue(m) : m \in Moments} \cup {OtherValue}

\* the circuits that exist to be added: each is valid on its own device
Others(ms) ==
    {CircuitValue(c[1], c[2]) :
        c \in {c \in SeqsUpTo(Moments, Min(2, MaxSize - Len(ms)))
                      \X {UnconstrainedDevice, SerialDevice} :
                  ~validate_circuit_raises(c[2], c[1])}}

DoSetDevice ==
    /\ Ready
    /\ frontier = EmptyFrontier
    /\ \E new_device \in {UnconstrainedDevice, SerialDevice} :
           LET r == set_device(moments, device, new_device)
           IN  /\ call' = [name |-> "device", new_device |-> new_device]
               /\ outcome' = r.outcome
               /\ device' = r.device
    /\ pc' = "returned"
    /\ prev' = moments
    /\ ret' = <<>>
    /\ trace' = <<>>
    /\ UNCHANGED <<moments, frontier, threaded, spliced, state>>

DoSetItem ==
    /\ Ready
    /\ frontier = EmptyFrontier
    /\ \E key \in Keys(moments) : \E value \in Values(key) :
           Called([name |-> "__setitem__", key |-> key, value |-> value],
                  setitem(moments, device, key, value))
    /\ UNCHANGED <<frontier, threaded, spliced>>

DoDelItem ==
    /\ Ready
    /\ frontier = EmptyFrontier
    /\ \E key \in Keys(moments) :
           Called([name |-> "__delitem__", key |-> key],
                  delitem(moments, key))
    /\ UNCHANGED <<frontier, threaded, spliced>>

DoIAdd ==
    /\ Ready
    /\ frontier = EmptyFrontier
    /\ \E other \in Others(moments) \cup {OtherValue} :
           Called([name |-> "__iadd__", other |-> other],
                  iadd(moments, device, other))
    /\ UNCHANGED <<frontier, threaded, spliced>>

DoIMul ==
    /\ Ready
    /\ frontier = EmptyFrontier
    /\ \E repetitions \in {<<>>} \cup {<<n>> : n \in -1..MaxSize} :
           /\ repetitions # <<>> => Len(moments) * repetitions[1] <= MaxSize
           /\ Called([name |-> "__imul__", repetitions |-> repetitions],
                     imul(moments, repetitions))
    /\ UNCHANGED <<frontier, threaded, spliced>>

\* the caller has looked at the result and is ready for its next call; it
\* keeps the frontier for another insert_at_frontier or drops it
Resume ==
    /\ pc = "returned"
    /\ pc' = "ready"
    /\ prev' = moments
    /\ call' = [name |-> "Circuit"]
    /\ outcome' = OK
    /\ ret' = <<>>
    /\ trace' = <<>>
    /\ \/ UNCHANGED <<frontier, threaded>>
       \/ frontier' = EmptyFrontier /\ threaded' = <<>>
    /\ spliced' = <<0, 0>>
    /\ UNCHANGED <<moments, device, state>>

Next ==
    \/ DoInsert
    \/ DoAppend
    \/ DoInsertIntoRange
    \/ DoInsertAtFrontier
    \/ DoBatchRemove
    \/ DoBatchInsertInto
    \/ DoBatchInsert
    \/ DoClearOperationsTouching
    \/ DoSetDevice
    \/ DoSetItem
    \/ DoDelItem
    \/ DoIAdd
    \/ DoIMul
    \/ Resume

Spec == Init /\ [][Next]_vars

SpecDevice == InitDevice /\ [][Next]_vars

(***************************************************************************)
(* reconstruct_moments as a function of its input: the caller holds a list *)
(* of items, calls, and gets the batches back.  ret is the returned list   *)
(* of batches, trace the input places of the items of every batch.         *)
(***************************************************************************)
InitBatches ==
    /\ moments = <<>>
    /\ device = UnconstrainedDevice
    /\ frontier = EmptyFrontier
    /\ prev = <<>>
    /\ \E list \in SeqsUpTo(Items, MaxItems) :
           call = [name |-> "reconstruct_moments", mat_and_qs_list |-> list]
    /\ outcome = OK
    /\ ret = <<>>
    /\ trace = <<>>
    /\ pc = "ready"
    /\ threaded = <<>>
    /\ spliced = <<0, 0>>
    /\ state = <<>>

DoReconstructMoments ==
    /\ pc = "ready"
    /\ call.name = "reconstruct_moments"
    /\ LET batches == reconstruct_moments(WithPlaces(call.mat_and_qs_list))
       IN  /\ ret' = <<WithoutPlaces(batches)>>
           /\ trace' = PlacesOf(batches)
    /\ pc' = "returned"
    /\ outcome' = OK
    /\ UNCHANGED <<moments, device, frontier, prev, call, threaded, spliced,
                   state>>

NextBatches == DoReconstructMoments

SpecBatches == InitBatches /\ [][NextBatches]_vars

(***************************************************************************)
(* The simulation entry points on a circuit that was built before: the     *)
(* circuit is any list of at most MaxSimulatedMoments moments of the       *)
(* simulated operations.  trace is the list of elementary applications     *)
(* made on the state tensor before the call returned or raised.            *)
(***************************************************************************)
SimulatedMoments ==
    {m \in SeqsUpTo(SimulatedOperations, 2) : ~MomentOverlaps(m)}

NoiseModels == {"DressedQutritErrors", "CurrentSuperconductingQCErrors"}

InitSimulation ==
    /\ moments \in SeqsUpTo(SimulatedMoments, MaxSimulatedMoments)
    /\ device = UnconstrainedDevice
    /\ frontier = EmptyFrontier
    /\ prev = <<>>
    /\ call = [name |-> "Circuit"]
    /\ outcome = OK
    /\ ret = <<>>
    /\ trace = <<>>
    /\ pc = "ready"
    /\ threaded = <<>>
    /\ spliced = <<0, 0>>
    /\ state = <<>>

DoToUnitaryMatrix ==
    /\ pc = "ready"
    /\ \E present \in {{}, {"c"}}, ignore_terminal_measurements \in BOOLEAN :
           Called([name |-> "to_unitary_matrix",
                   qubits_that_should_be_present |-> present,
                   ignore_terminal_measurements |-> ignore_terminal_measurements,
                   noise_model |-> None],
                  to_unitary_matrix(moments, present, ignore_terminal_measurements))
    /\ UNCHANGED <<frontier, threaded, spliced>>

DoApplyUnitaryEffectToState ==
    /\ pc = "ready"
    /\ \E present \in {{}, {"c"}}, ignore_terminal_measurements \in BOOLEAN,
          noise_model \in NoiseModels \cup {None} :
           Called([name |-> "apply_unitary_effect_to_state",
                   qubits_that_should_be_present |-> present,
                   ignore_terminal_measurements |-> ignore_terminal_measurements,
                   noise_model |-> noise_model],
                  apply_unitary_effect_to_state(moments, present,
                      ignore_terminal_measurements, noise_model))
    /\ UNCHANGED <<frontier, threaded, spliced>>

NextSimulation ==
    \/ DoToUnitaryMatrix
    \/ DoApplyUnitaryEffectToState

SpecSimulation == InitSimulation /\ [][NextSimulation]_vars

(***************************************************************************)
(* The samplers of a noise model.  The model was constructed (cls() runs   *)
(* no code of the class); its user calls one of the four pick methods.     *)
(* level is the level the qutrit of the axis has in the state handed to an *)
(* idle method.  ret is the operator returned, trace the record of the     *)
(* draw.                                                                   *)
(***************************************************************************)
InitSampling ==
    /\ moments = <<>>
    /\ device = UnconstrainedDevice
    /\ frontier = EmptyFrontier
    /\ prev = <<>>
    /\ \E cls \in NoiseModelClasses :
           call = [name |-> "__init__", noise_model |-> cls, level |-> 0]
    /\ outcome = OK
    /\ ret = <<>>
    /\ trace = <<>>
    /\ pc = "ready"
    /\ threaded = <<>>
    /\ spliced = <<0, 0>>
    /\ state = <<>>

\* the bookkeeping the four pick methods share
Sampled(name, level, picked) ==
    /\ pc' = "returned"
    /\ call' = [name |-> name, noise_model |-> call.noise_model, level |-> level]
    /\ outcome' = picked.outcome
    /\ ret' = picked.operator
    /\ trace' = <<picked>>
    /\ UNCHANGED <<moments, device, frontier, prev, threaded, spliced, state>>

DoPickSingleQutritGateChannel ==
    /\ pc = "ready"
    /\ \E picked \in pick_single_qutrit_gate_channel(instance(call.noise_model)) :
           Sampled("pick_single_qutrit_gate_channel", 0, picked)

DoPickTwoQutritGateChannel ==
    /\ pc = "ready"
    /\ \E picked \in pick_two_qutrit_gate_channel(instance(call.noise_model)) :
           Sampled("pick_two_qutrit_gate_channel", 0, picked)

DoPickLongIdleChannel ==
    /\ pc = "ready"
    /\ \E level \in 0..(QUDIT_LEVELS - 1) :
        \E picked \in pick_long_idle_channel(call.noise_model, level) :
           Sampled("pick_long_idle_channel", level, picked)

DoPickShortIdleChannel ==
    /\ pc = "ready"
    /\ \E level \in 0..(QUDIT_LEVELS - 1) :
        \E picked \in pick_short_idle_channel(call.noise_model, level) :
           Sampled("pick_short_idle_channel", level, picked)

NextSampling ==
    \/ DoPickSingleQutritGateChannel
    \/ DoPickTwoQutritGateChannel
    \/ DoPickLongIdleChannel
    \/ DoPickShortIdleChannel

SpecSampling == InitSampling /\ [][NextSampling]_vars

(***************************************************************************)
(* _extract_unitaries as a function of its input: the caller holds a list  *)
(* of operations and runs the generator to its end.  ret is the list of    *)
(* pairs it yielded when it ended without an exception.                    *)
(***************************************************************************)
InitExtraction ==
    /\ moments = <<>>
    /\ device = UnconstrainedDevice
    /\ frontier = EmptyFrontier
    /\ prev = <<>>
    /\ \E operations \in SeqsUpTo(ExtractedOperations, MaxExtracted) :
           call = [name |-> "_extract_unitaries", operations |-> operations]
    /\ outcome = OK
    /\ ret = <<>>
    /\ trace = <<>>
    /\ pc = "ready"
    /\ threaded = <<>>
    /\ spliced = <<0, 0>>
    /\ state = <<>>

DoExtractUnitaries ==
    /\ pc = "ready"
    /\ call.name = "_extract_unitaries"
    /\ LET extracted == extract_unitaries(call.operations)
       IN  /\ outcome' = extracted.outcome
           /\ ret' = IF extracted.outcome = OK THEN <<extracted.items>> ELSE <<>>
           /\ trace' = extracted.items
    /\ pc' = "returned"
    /\ UNCHANGED <<moments, device, frontier, prev, call, threaded, spliced,
                   state>>

NextExtraction == DoExtractUnitaries

SpecExtraction == InitExtraction /\ [][NextExtraction]_vars

(***************************************************************************)
(* Classical ternary evaluation: the caller holds a ternary state over the *)
(* qutrits; it applies one operation to it, or hands it (or nothing) to    *)
(* evaluate_ternary_circuit with a circuit, and goes on with the state as  *)
(* the call left it.  prev is the state before the call.                   *)
(***************************************************************************)
TernaryOperations ==
    {Op("PlusOne", <<"a">>), Op("PlusOne", <<"b">>), Op("F01", <<"a">>),
     Op("C1PlusOne", <<"a", "b">>), Op("SwapQubits", <<"a", "b">>),
     Op("SwapQubits", <<"a", "a">>), Op("Short", <<"a", "b">>),
     Op("Wide", <<"a", "b">>), Op("Wide", <<"b", "a">>),
     Op("TernaryLogicGate", <<"a">>),
     Op("controlled_ternary_gate.C1F01", <<"a", "b">>),
     Op("controlled_ternary_gate.C1F01", <<"b", "b">>)}

\* the operations of the circuits that are evaluated
EvaluatedOperations ==
    {Op("PlusOne", <<"a">>), Op("PlusOne", <<"b">>), Op("F01", <<"a">>),
     Op("C1PlusOne", <<"a", "b">>), Op("SwapQubits", <<"a", "b">>),
     Op("Seq", <<"b", "a">>), Op("controlled_ternary_gate.C1F01", <<"a", "b">>)}

EvaluatedMoments ==
    {m \in SeqsUpTo(EvaluatedOperations, 2) : ~MomentOverlaps(m)}

InitTernary ==
    /\ moments = <<>>
    /\ device = UnconstrainedDevice
    /\ frontier = EmptyFrontier
    /\ prev = <<>>
    /\ call = [name |-> "dict"]
    /\ outcome = OK
    /\ ret = <<>>
    /\ trace = <<>>
    /\ pc = "ready"
    /\ threaded = <<>>
    /\ spliced = <<0, 0>>
    /\ state \in TernaryStates

DoApplyToTernaryState ==
    /\ pc = "ready"
    /\ \E op \in TernaryOperations :
           LET r == apply_to_ternary_state(op, state)
           IN  /\ call' = [name |-> "apply_to_ternary_state", op |-> op]
               /\ outcome' = r.outcome
               /\ state' = r.state
    /\ prev' = state
    /\ ret' = <<>>
    /\ pc' = "returned"
    /\ UNCHANGED <<moments, device, frontier, trace, threaded, spliced>>

DoEvaluateTernaryCircuit ==
    /\ pc = "ready"
    /\ \E circuit \in SeqsUpTo(EvaluatedMoments, MaxEvaluatedMoments),
          input_state \in {<<>>, <<state>>} :
           LET r == evaluate_ternary_circuit(circuit, input_state)
           IN  /\ call' = [name |-> "evaluate_ternary_circuit",
                           circuit |-> circuit, input_state |-> input_state]
               /\ outcome' = r.outcome
               /\ ret' = r.ret
               /\ state' = IF input_state = <<>> THEN state
                           ELSE r.input_state[1]
    /\ prev' = state
    /\ pc' = "returned"
    /\ UNCHANGED <<moments, device, frontier, trace, threaded, spliced>>

\* the caller goes on with the state as it is
GoOn ==
    /\ pc = "returned"
    /\ pc' = "ready"
    /\ prev' = <<>>
    /\ call' = [name |-> "dict"]
    /\ outcome' = OK
    /\ ret' = <<>>
    /\ UNCHANGED <<moments, device, frontier, trace, threaded, spliced, state>>

NextTernary ==
    \/ DoApplyToTernaryState
    \/ DoEvaluateTernaryCircuit
    \/ GoOn

SpecTernary == InitTernary /\ [][NextTernary]_vars

(***************************************************************************)
(* Properties.  A property of a call is stated over the state the call     *)
(* returns to: prev is the moment list before it, call its arguments.      *)
(***************************************************************************)
Returned(name) == pc = "returned" /\ call.name = name

PairwiseDisjoint(operations) ==
    \A i, j \in 1..Len(operations) :
        i < j => OpQubits(operations[i]) \cap OpQubits(operations[j]) = {}

\* the moment at index i exists and none of its operations touches op's qubits
Accepts(ms, i, op) ==
    /\ 0 <= i
    /\ i < Len(ms)
    /\ ~operates_on(At(ms, i), OpQubits(op))

\* C1: after any sequence of mutations from the empty circuit, no qubit is
\* touched by two operations of one moment of the circuit.
C1_MomentsDisjoint ==
    \A i \in 1..Len(moments) : ~MomentOverlaps(moments[i])

\* a batch_insert_into that collided was turned down, on a circuit that holds
\* a moment of two operations
C1_Witness ==
    /\ Returned("batch_insert_into")
    /\ outcome = ValueError
    /\ \E i \in 1..Len(moments) : Len(moments[i]) = 2

\* request n of a batch_remove finds nothing to remove: its moment does not
\* exist, or does not hold the operation, or an earlier request of the same
\* call removed it already
RemovalMissing(ms, removals, n) ==
    \/ IndexRaises(ms, removals[n][1])
    \/ removals[n][2] \notin Range(At(ms, PyIndex(ms, removals[n][1])))
    \/ \E k \in 1..(n - 1) :
           /\ ~IndexRaises(ms, removals[k][1])
           /\ PyIndex(ms, removals[k][1]) = PyIndex(ms, removals[n][1])
           /\ removals[k][2] = removals[n][2]

\* C2: a batch_remove with a request that finds nothing to remove raises and
\* leaves the live moment list as it was, also when earlier requests were valid.
C2_BatchRemoveAllOrNothing ==
    Returned("batch_remove") =>
        ((\E n \in 1..Len(call.removals) :
              RemovalMissing(prev, call.removals, n))
            => (outcome \in {ValueError, IndexError} /\ moments = prev))

\* a valid removal followed by a second removal of the same operation
C2_Witness ==
    /\ Returned("batch_remove")
    /\ Len(call.removals) = 2
    /\ ~RemovalMissing(prev, call.removals, 1)
    /\ call.removals[2] = call.removals[1]
    /\ outcome = ValueError
    /\ moments = prev

\* request n of a batch_insert_into cannot be served: its moment does not
\* exist, or holds an operation on one of its qubits, or an earlier request
\* of the same call put one there
InsertIntoCollides(ms, insert_intos, n) ==
    \/ IndexRaises(ms, insert_intos[n][1])
    \/ operates_on(At(ms, PyIndex(ms, insert_intos[n][1])),
                   OpQubits(insert_intos[n][2]))
    \/ \E k \in 1..(n - 1) :
           /\ ~IndexRaises(ms, insert_intos[k][1])
           /\ PyIndex(ms, insert_intos[k][1]) = PyIndex(ms, insert_intos[n][1])
           /\ OpQubits(insert_intos[k][2]) \cap OpQubits(insert_intos[n][2]) # {}

\* the operations the requests name for moment index m, in request order
RECURSIVE RequestedFor(_, _, _, _)
RequestedFor(ms, insert_intos, m, n) ==
    IF n > Len(insert_intos)
    THEN <<>>
    ELSE (IF PyIndex(ms, insert_intos[n][1]) = m
          THEN <<insert_intos[n][2]>> ELSE <<>>)
             \o RequestedFor(ms, insert_intos, m, n + 1)

\* C3 (on a circuit of the unconstrained device, where no device rejects):
\* batch_insert_into raises and leaves the live circuit unchanged when a
\* request collides (with the circuit or with an earlier request) or names a
\* moment the list does not hold; otherwise every requested operation is added
\* to its moment and the number of moments is unchanged.
C3_BatchInsertIntoAllOrNothing ==
    (Returned("batch_insert_into") /\ device = UnconstrainedDevice) =>
        IF \E n \in 1..Len(call.insert_intos) :
               InsertIntoCollides(prev, call.insert_intos, n)
        THEN outcome \in {ValueError, IndexError} /\ moments = prev
        ELSE /\ outcome = OK
             /\ Len(moments) = Len(prev)
             /\ \A m \in 0..(Len(prev) - 1) :
                    At(moments, m) =
                        At(prev, m) \o RequestedFor(prev, call.insert_intos, m, 1)

\* a first request that fits and a second that collides with it
C3_Witness ==
    /\ Returned("batch_insert_into")
    /\ device = UnconstrainedDevice
    /\ Len(call.insert_intos) = 2
    /\ ~InsertIntoCollides(prev, call.insert_intos, 1)
    /\ ~operates_on(At(prev, PyIndex(prev, call.insert_intos[2][1])),
                    OpQubits(call.insert_intos[2][2]))
    /\ InsertIntoCollides(prev, call.insert_intos, 2)
    /\ outcome = ValueError
    /\ moments = prev

\* C4: batch_insert replaces the live moment list only when every insertion
\* succeeded; when an insertion raises (an index outside the working copy, a
\* device rejection) the live moment list is as before the call.
C4_BatchInsertAllOrNothing ==
    Returned("batch_insert") =>
        /\ outcome # OK => moments = prev
        /\ (\E n \in 1..Len(trace) :
                ~(0 <= trace[n].at /\ trace[n].at <= trace[n].len))
               => outcome # OK

\* the second insertion of a call raised after the first had gone into the copy
C4_Witness ==
    /\ Returned("batch_insert")
    /\ Len(trace) = 2
    /\ outcome = ValueError
    /\ moments = prev

\* C5 (on a circuit of the unconstrained device): each request of batch_insert at index i is inserted at i + s, s being
\* the number of moments the earlier insertions of the call added to the copy.
C5_ShiftCountsNewMoments ==
    (Returned("batch_insert") /\ device = UnconstrainedDevice) =>
        \A n \in 1..Len(trace) :
            trace[n].at = trace[n].i + (trace[n].len - Len(prev))

\* C6 (on a circuit of the unconstrained device, where no device rejects):
\* insert(i, ops, NEW_THEN_INLINE) with a valid index and at least one
\* operation, the operations pairwise disjoint, adds one moment at index i
\* holding exactly the operations of the call, and nothing else changes.
C6_NewThenInlineOneMoment ==
    (/\ Returned("insert")
     /\ device = UnconstrainedDevice
     /\ call.payload.kind = "ops"
     /\ call.strategy = InsertStrategy_NEW_THEN_INLINE
     /\ 0 <= call.index
     /\ call.index <= Len(prev)
     /\ Len(call.payload.ops) >= 1
     /\ PairwiseDisjoint(call.payload.ops))
        => /\ outcome = OK
           /\ moments = SubSeq(prev, 1, call.index)
                            \o <<call.payload.ops>>
                            \o SubSeq(prev, call.index + 1, Len(prev))
           /\ \A n \in 1..Len(trace) : trace[n] = call.index

\* two disjoint operations inserted between two moments
C6_Witness ==
    /\ Returned("insert")
    /\ device = UnconstrainedDevice
    /\ call.payload.kind = "ops"
    /\ call.strategy = InsertStrategy_NEW_THEN_INLINE
    /\ 0 < call.index
    /\ call.index < Len(prev)
    /\ Len(call.payload.ops) = 2
    /\ PairwiseDisjoint(call.payload.ops)
    /\ outcome = OK

\* C7: for a valid index, the k insert returns is at least the index, at most
\* the new length, and greater than every moment index the call wrote into.
C7_ReturnedIndexAfterWrites ==
    (/\ Returned("insert")
     /\ 0 <= call.index
     /\ call.index <= Len(prev)
     /\ outcome = OK)
        => /\ Len(ret) = 1
           /\ call.index <= ret[1]
           /\ ret[1] <= Len(moments)
           /\ \A n \in 1..Len(trace) : ret[1] > trace[n]

\* an EARLIEST insert of two operations, the last written two or more moments
\* before the index
C7_Witness ==
    /\ Returned("insert")
    /\ call.payload.kind = "ops"
    /\ call.strategy = InsertStrategy_EARLIEST
    /\ outcome = OK
    /\ Len(trace) = 2
    /\ trace[2] + 1 < call.index
    /\ ret = <<call.index>>

\* C8 (on a circuit of the unconstrained device): insert with an index below 0 or above the length raises IndexError and
\* leaves the moment list unchanged, for an operation tree and for a Moment.
C8_OutOfRangeRaises ==
    (/\ Returned("insert")
     /\ device = UnconstrainedDevice
     /\ (call.index < 0 \/ call.index > Len(prev)))
        => (outcome = IndexError /\ moments = prev)

\* C9: when the device rejects an operation or a moment during insert, the
\* moment list after the failed call is the one before it.
C9_DeviceRejectionRollsBack ==
    (Returned("insert") /\ outcome = ValueError) => moments = prev

\* the moment index an insert of one operation wrote into
PlacedAt == trace[1]

\* an EARLIEST insert of one operation at a valid index into a circuit of the
\* unconstrained device, where no device rejects
EarliestCall ==
    /\ Returned("insert")
    /\ device = UnconstrainedDevice
    /\ call.payload.kind = "ops"
    /\ Len(call.payload.ops) = 1
    /\ call.strategy = InsertStrategy_EARLIEST
    /\ 0 <= call.index
    /\ call.index <= Len(prev)

\* a new moment only when neither the moment at index nor the one before it
\* accepts the operation
NewMomentOnlyWhenNeeded(op) ==
    Len(moments) # Len(prev) =>
        /\ Len(moments) = Len(prev) + 1
        /\ ~Accepts(prev, call.index, op)
        /\ ~Accepts(prev, call.index - 1, op)

\* C10 as claimed: an EARLIEST insert of op never raises and writes op into a
\* moment p <= index with p = 0 or the moment at p-1 operating on a qubit of
\* op; a moment is created only when the moments at index and index-1 both
\* cannot accept op.
C10_EarliestAlwaysWalksBack ==
    EarliestCall =>
        LET op == call.payload.ops[1]
        IN  /\ outcome = OK
            /\ Len(trace) = 1
            /\ PlacedAt <= call.index
            /\ (PlacedAt = 0 \/ operates_on(At(moments, PlacedAt - 1), OpQubits(op)))
            /\ NewMomentOnlyWhenNeeded(op)

\* C10 amended: the walk backward happens when the moment at index accepts op
\* or index is the length; when the moment at index operates on a qubit of op
\* the operation goes INLINE: into the moment at index-1 if that accepts it
\* (with no further walk), else into a new moment at index.
C10_EarliestWalksBackOrInline ==
    EarliestCall =>
        LET op == call.payload.ops[1]
        IN  /\ outcome = OK
            /\ Len(trace) = 1
            /\ PlacedAt <= call.index
            /\ At(moments, PlacedAt)[Len(At(moments, PlacedAt))] = op
            /\ IF call.index = Len(prev) \/ Accepts(prev, call.index, op)
               THEN PlacedAt = 0
                        \/ operates_on(At(moments, PlacedAt - 1), OpQubits(op))
               ELSE PlacedAt = (IF Accepts(prev, call.index - 1, op)
                                THEN call.index - 1 ELSE call.index)
            /\ NewMomentOnlyWhenNeeded(op)

\* the walk went back past two or more moments
C10_Witness ==
    /\ EarliestCall
    /\ outcome = OK
    /\ PlacedAt + 2 <= call.index
    /\ Len(moments) = Len(prev)

\* ms after operations[1..k] were written, in this order, into the moments ps[1..k]
RECURSIVE WrittenInOrder(_, _, _, _)
WrittenInOrder(ms, operations, ps, k) ==
    IF k = 0
    THEN ms
    ELSE LET before == WrittenInOrder(ms, operations, ps, k - 1)
         IN  [before EXCEPT ![ps[k] + 1] = Append(@, operations[k])]

\* how many operations of the last insert_into_range went into moments below end
PlacedInRange == Cardinality({k \in 1..Len(trace) : trace[k] < call.end})

\* where the scan pointer stands when operation k is looked at
ScanPointer(k) == IF k = 1 THEN call.start ELSE trace[k - 1]

\* C11 (on a circuit of the unconstrained device, where no device rejects):
\* insert_into_range(ops, start, end) with 0 <= start <= end <= len takes
\* the operations in input order with a scan pointer that starts at start and
\* never moves backward; each operation goes into the first moment from the
\* pointer and before end that has no operation on its qubits; the first
\* operation that finds none goes, with all that follow it, to
\* insert(end, remainder); the in-range phase leaves the moments outside
\* [start, end) alone, and end is returned when everything was placed in
\* range.  Any other (start, end) raises IndexError and changes nothing.
C11_InsertIntoRangeScansForward ==
    (Returned("insert_into_range") /\ device = UnconstrainedDevice) =>
        LET operations == call.operations
            n_in == PlacedInRange
            in_range == WrittenInOrder(prev, operations, trace, n_in)
        IN  IF ~(0 <= call.start /\ call.start <= call.end
                    /\ call.end <= Len(prev))
            THEN outcome = IndexError /\ moments = prev
            ELSE /\ outcome = OK
                 /\ Len(trace) = Len(operations)
                 /\ \A k \in 1..n_in :
                        /\ ScanPointer(k) <= trace[k]
                        /\ trace[k] < call.end
                        /\ Accepts(WrittenInOrder(prev, operations, trace, k - 1),
                                   trace[k], operations[k])
                        /\ \A j \in ScanPointer(k)..(trace[k] - 1) :
                               ~Accepts(WrittenInOrder(prev, operations, trace, k - 1),
                                        j, operations[k])
                 /\ \A j \in 0..(Len(prev) - 1) :
                        (j < call.start \/ j >= call.end)
                            => At(in_range, j) = At(prev, j)
                 /\ n_in = Len(operations) =>
                        /\ moments = in_range
                        /\ ret = <<call.end>>
                 /\ n_in < Len(operations) =>
                        /\ \A j \in ScanPointer(n_in + 1)..(call.end - 1) :
                               ~Accepts(in_range, j, operations[n_in + 1])
                        /\ LET rest == insert(in_range, device, call.end,
                                           OpsPayload(SubSeq(operations, n_in + 1,
                                                             Len(operations))),
                                           InsertStrategy_NEW_THEN_INLINE)
                           IN  /\ moments = rest.moments
                               /\ ret = rest.ret

\* an operation skipped a colliding moment and was written in range, and the
\* next one found no moment before end and went to insert(end, ...)
C11_Witness ==
    /\ Returned("insert_into_range")
    /\ device = UnconstrainedDevice
    /\ outcome = OK
    /\ PlacedInRange >= 1
    /\ PlacedInRange < Len(call.operations)
    /\ \E k \in 1..PlacedInRange : ScanPointer(k) < trace[k]
    /\ Len(moments) > Len(prev)

SharesQubit(o1, o2) == OpQubits(o1) \cap OpQubits(o2) # {}

IsPrefix(xs, ys) == Len(xs) <= Len(ys) /\ SubSeq(ys, 1, Len(xs)) = xs

\* the index, after the last insert_at_frontier, of the moment that was at
\* index j before it
MovedTo(j) == IF j >= spliced[1] THEN j + spliced[2] ELSE j

\* C12: when insert_at_frontier(ops, start, frontier) returns (it does when no
\* frontier entry of its qubits is after start), the operations of the call
\* that share a qubit are in strictly increasing moments in input order, all
\* at start or later; every operation that was in the circuit at start or
\* later on one of their qubits is in a strictly later moment; the operations
\* that were in the circuit keep their moment order; and the operations
\* inserted through the frontier by this and the earlier calls are, qubit by
\* qubit, in the order they were inserted.
C12_FrontierKeepsSiteOrder ==
    Returned("insert_at_frontier") =>
        LET operations == call.operations
        IN  /\ (\A q \in AllQubits(operations) : call.frontier.val[q] <= call.start)
                   => outcome = OK
            /\ outcome = OK =>
                /\ Len(trace) = Len(operations)
                /\ \A k \in 1..Len(operations) :
                       /\ trace[k] >= call.start
                       /\ trace[k] < Len(moments)
                       /\ operations[k] \in Range(At(moments, trace[k]))
                /\ \A k1, k2 \in 1..Len(operations) :
                       (k1 < k2 /\ SharesQubit(operations[k1], operations[k2]))
                           => trace[k1] < trace[k2]
                /\ \A j \in 0..(Len(prev) - 1) :
                       /\ MovedTo(j) < Len(moments)
                       /\ IsPrefix(At(prev, j), At(moments, MovedTo(j)))
                       /\ \A k \in 1..Len(operations) :
                              (j >= call.start
                                  /\ operates_on(At(prev, j), OpQubits(operations[k])))
                                  => MovedTo(j) > trace[k]
                /\ \A i \in 1..Len(threaded) :
                       /\ threaded[i].at < Len(moments)
                       /\ threaded[i].op \in Range(At(moments, threaded[i].at))
                       /\ \A j \in 1..Len(threaded) :
                              (i < j /\ SharesQubit(threaded[i].op, threaded[j].op))
                                  => threaded[i].at < threaded[j].at

\* a later call through the same frontier spliced moments in before an
\* operation that was in the circuit on one of its qubits
C12_Witness ==
    /\ Returned("insert_at_frontier")
    /\ outcome = OK
    /\ spliced[2] > 0
    /\ Len(threaded) > Len(call.operations)
    /\ Len(call.operations) >= 2
    /\ \E j \in 0..(Len(prev) - 1) :
           /\ j >= call.start
           /\ operates_on(At(prev, j), AllQubits(call.operations))

\* the last operation of the call on qubit q
LastOn(operations, q) ==
    MaxOver({k \in 1..Len(operations) : q \in OpQubits(operations[k])})

\* the moments of the operations inserted through the frontier on qubit q
ThreadedOn(q) ==
    {threaded[i].at : i \in {k \in 1..Len(threaded) : q \in OpQubits(threaded[k].op)}}

\* the entry of every qubit that has had an operation inserted through the
\* frontier is one past the moment of the last of them: an entry that is the
\* index at which moments are spliced in is left as it is, and the moment
\* before it is the one that was before it
FrontierOnePastLastInserted ==
    Returned("insert_at_frontier") =>
        /\ \A q \in Qubits :
               ThreadedOn(q) # {} => frontier.val[q] = MaxOver(ThreadedOn(q)) + 1
        /\ (outcome = OK /\ call.operations # <<>>) =>
               \A q \in Qubits \ AllQubits(call.operations) :
                   call.frontier.val[q] > 0 =>
                       frontier.val[q] - 1 = MovedTo(call.frontier.val[q] - 1)

\* C13: insert_at_frontier never decreases a frontier entry.  For a qubit of
\* the call the returned entry is the moment of the call's last operation on
\* it, plus one.  For a qubit that is in the frontier and that the call does
\* not touch, the entry is unchanged or increased by exactly the number of
\* moments spliced in, and it still identifies the same moment: when the entry
\* was the index of a moment of the circuit, it is the index that moment has
\* after the call.
C13_FrontierNeverDecreases ==
    Returned("insert_at_frontier") =>
        LET operations == call.operations
            old == call.frontier
        IN  /\ old.keys \subseteq frontier.keys
            /\ \A q \in Qubits : frontier.val[q] >= old.val[q]
            /\ (outcome # OK \/ operations = <<>>) => frontier.val = old.val
            /\ (outcome = OK /\ operations # <<>>) =>
                   /\ \A q \in AllQubits(operations) :
                          frontier.val[q] = trace[LastOn(operations, q)] + 1
                   /\ \A q \in old.keys \ AllQubits(operations) :
                          /\ frontier.val[q] \in {old.val[q], old.val[q] + spliced[2]}
                          /\ old.val[q] < Len(prev) =>
                                 frontier.val[q] = MovedTo(old.val[q])

\* moments were spliced in at the entry of a qubit the call did not touch: the
\* moment the entry was the index of moved, and the entry did not
C13_Witness ==
    /\ Returned("insert_at_frontier")
    /\ outcome = OK
    /\ spliced[2] > 0
    /\ \E q \in call.frontier.keys \ AllQubits(call.operations) :
           /\ call.frontier.val[q] = spliced[1]
           /\ call.frontier.val[q] > 0
           /\ call.frontier.val[q] < Len(prev)
           /\ frontier.val[q] = call.frontier.val[q]
           /\ At(moments, frontier.val[q]) # At(prev, call.frontier.val[q])

\* C13 without its last clause: the entry of a qubit the call does not touch is
\* unchanged or increased by exactly the number of moments spliced in
FrontierEntriesUnchangedOrShifted ==
    (Returned("insert_at_frontier") /\ outcome = OK /\ call.operations # <<>>) =>
        \A q \in call.frontier.keys \ AllQubits(call.operations) :
            frontier.val[q] \in
                {call.frontier.val[q], call.frontier.val[q] + spliced[2]}

\* the length of the longest chain of operations threaded[..k] that ends in
\* threaded[k], each sharing a qubit with the next
RECURSIVE ChainLength(_)
ChainLength(k) ==
    1 + MaxOver({0} \cup {ChainLength(j) : j \in {i \in 1..(k - 1) :
                              SharesQubit(threaded[i].op, threaded[k].op)}})

\* the last call was the second of two that inserted, from the empty circuit
\* on, with start = 0 and through one frontier, on disjoint sets of qubits
SecondCallFromEmpty ==
    /\ Returned("insert_at_frontier")
    /\ outcome = OK
    /\ call.operations # <<>>
    /\ threaded # <<>>
    /\ threaded[Len(threaded)].call = 2
    /\ \A i, j \in 1..Len(threaded) :
           (threaded[i].call = 1 /\ threaded[j].call = 2)
               => ~SharesQubit(threaded[i].op, threaded[j].op)

\* C14: from an empty circuit, after two insert_at_frontier calls with
\* start = 0 on disjoint sets of qubits through one frontier, the circuit has
\* as many moments as the longest chain of inserted operations that share a
\* qubit with the next, and none of its moments is empty.
C14_TwoCallsNoSuperfluousMoment ==
    SecondCallFromEmpty =>
        /\ Len(moments) = MaxOver({ChainLength(k) : k \in 1..Len(threaded)})
        /\ \A i \in 1..Len(moments) : moments[i] # <<>>

\* the second call needed more moments than the first left, and got them
C14_Witness ==
    /\ SecondCallFromEmpty
    /\ Len(call.operations) >= 2
    /\ Len(moments) > Len(prev)
    /\ Len(prev) >= 1

\* the batch (1, 2, ...) that holds the item at place i of the input
BatchOf(i) == CHOOSE b \in 1..Len(trace) : i \in Range(trace[b])

ItemsShareSite(list, i, j) == Range(list[i].qs) \cap Range(list[j].qs) # {}

\* C15: in every batch reconstruct_moments produces, the site sets of the
\* items are pairwise disjoint, and of two input items that share a site the
\* earlier one is in a strictly earlier batch.
C15_BatchesDisjointAndOrdered ==
    Returned("reconstruct_moments") =>
        LET list == call.mat_and_qs_list
        IN  /\ \A b \in 1..Len(ret[1]) : \A k1, k2 \in 1..Len(ret[1][b]) :
                   k1 < k2 => Range(ret[1][b][k1].qs) \cap Range(ret[1][b][k2].qs) = {}
            /\ \A i \in 1..Len(list) : \E b \in 1..Len(trace) : i \in Range(trace[b])
            /\ \A i, j \in 1..Len(list) :
                   (i < j /\ ItemsShareSite(list, i, j)) => BatchOf(i) < BatchOf(j)

\* an item was put off only because of an item that was itself put off
C15_Witness ==
    /\ Returned("reconstruct_moments")
    /\ call.mat_and_qs_list = <<Item("X", <<"A">>), Item("U", <<"A", "B">>),
                                Item("V", <<"B">>)>>
    /\ Len(ret[1]) = 3

\* C16: an item with no earlier input item on one of its sites is in batch 1;
\* any other item is in the batch after the last batch of the earlier items
\* that share a site with it; the items of a batch are in input order.  So
\* [(U,{A,B}), (V,{B}), (W,{C})] gives the two batches [U, W], [V].
C16_BatchesAsEarlyAsPossible ==
    Returned("reconstruct_moments") =>
        LET list == call.mat_and_qs_list
        IN  /\ \A i \in 1..Len(list) : \E b \in 1..Len(trace) : i \in Range(trace[b])
            /\ \A i \in 1..Len(list) :
                   BatchOf(i) = 1 + MaxOver({0} \cup
                       {BatchOf(j) : j \in {k \in 1..(i - 1) : ItemsShareSite(list, k, i)}})
            /\ \A b \in 1..Len(trace) : \A k1, k2 \in 1..Len(trace[b]) :
                   k1 < k2 => trace[b][k1] < trace[b][k2]
            /\ \A b \in 1..Len(trace) : \A k \in 1..Len(trace[b]) :
                   ret[1][b][k] = list[trace[b][k]]
            /\ list = <<Item("U", <<"A", "B">>), Item("V", <<"B">>), Item("W", <<"C">>)>>
                   => ret[1] = << <<Item("U", <<"A", "B">>), Item("W", <<"C">>)>>,
                                  <<Item("V", <<"B">>)>> >>

\* the list of the example came back as the two batches [U, W], [V]
C16_Witness ==
    /\ Returned("reconstruct_moments")
    /\ call.mat_and_qs_list =
           <<Item("U", <<"A", "B">>), Item("V", <<"B">>), Item("W", <<"C">>)>>
    /\ ret = << << <<Item("U", <<"A", "B">>), Item("W", <<"C">>)>>,
                   <<Item("V", <<"B">>)>> >> >>

\* flattening reaches, in op or at some depth of its decomposition, an
\* operation with no matrix, no decomposition and no measurement
RECURSIVE ReachesUnsimulatable(_)
ReachesUnsimulatable(op) ==
    /\ ~has_unitary(op)
    /\ IF is_composite(op)
       THEN \E n \in 1..Len(default_decompose(op)) :
                ReachesUnsimulatable(default_decompose(op)[n])
       ELSE ~is_measurement(op)

HasUnsimulatable(ms) ==
    \E n \in 1..Len(all_operations(ms)) : ReachesUnsimulatable(all_operations(ms)[n])

Simulated ==
    pc = "returned"
        /\ call.name \in {"to_unitary_matrix", "apply_unitary_effect_to_state"}

\* C17: flattening raises TypeError exactly when it reaches, at any depth, an
\* operation with no matrix, no decomposition and no measurement; the list of
\* primitives is built whole before anything is simulated, so with such an
\* operation anywhere in the circuit no gate and no noise channel is applied.
C17_UnsimulatableAbortsBeforeAnyGate ==
    /\ (extract_unitaries(all_operations(moments)).outcome = TypeError)
           <=> HasUnsimulatable(moments)
    /\ Simulated =>
           /\ outcome = TypeError => HasUnsimulatable(moments)
           /\ HasUnsimulatable(moments) =>
                  /\ outcome # OK
                  /\ trace = <<>>
                  /\ (call.noise_model # None
                          /\ outcome \notin {ValueError, IndexError})
                         => outcome = TypeError

\* a circuit whose first moment can be simulated and whose second moment
\* decomposes, two levels down, into an operation that cannot
C17_Witness ==
    /\ Returned("apply_unitary_effect_to_state")
    /\ outcome = TypeError
    /\ Len(moments) = 2
    /\ moments[1] = <<Xa>>
    /\ moments[2] = <<Db>>
    /\ trace = <<>>

\* some measurement of the circuit is followed, in a later moment, by an
\* operation on one of its qubits
NonTerminalMeasurement(ms) ==
    \E i, j \in 1..Len(ms) : \E n \in 1..Len(ms[i]) :
        /\ i < j
        /\ is_measurement(ms[i][n])
        /\ operates_on(ms[j], OpQubits(ms[i][n]))

AnyMeasurement(ms) ==
    \E i \in 1..Len(ms) : \E n \in 1..Len(ms[i]) : is_measurement(ms[i][n])

\* C18: apply_unitary_effect_to_state and to_unitary_matrix raise ValueError
\* if and only if a measurement is followed by an operation on one of its
\* qubits in a later moment, or ignore_terminal_measurements is False and the
\* circuit has a measurement.  A measurement with nothing after it on its
\* qubits is let through, and the simulation then applies nothing but
\* unitaries, gate errors, idle channels and renormalisations.
C18_ValueErrorIffMeasurementNotIgnored ==
    Simulated =>
        /\ outcome = ValueError <=>
               \/ NonTerminalMeasurement(prev)
               \/ ~call.ignore_terminal_measurements /\ AnyMeasurement(prev)
        /\ \A n \in 1..Len(trace) :
               trace[n].kind \in {"unitary", "gate_error", "idle", "renormalize"}

\* a circuit that ends in a measurement was simulated to its end
C18_Witness ==
    /\ Returned("apply_unitary_effect_to_state")
    /\ outcome = OK
    /\ call.ignore_terminal_measurements
    /\ Len(moments) = 2
    /\ moments[1] = <<Xa>>
    /\ moments[2] = <<Ma>>
    /\ trace # <<>>

\* the gates of the unitaries applied, in the order applied
UnitariesApplied ==
    LET at == SelectSeq([n \in 1..Len(trace) |-> n],
                        LAMBDA n : trace[n].kind = "unitary")
    IN  [k \in 1..Len(at) |-> trace[at[k]].by]

\* the gates of the primitives of the circuit, batch after batch
RECURSIVE Flattened(_)
Flattened(batches) ==
    IF batches = <<>>
    THEN <<>>
    ELSE [k \in 1..Len(Head(batches)) |-> Head(batches)[k].mat.gate]
             \o Flattened(Tail(batches))

\* C19: without a noise model (noise_model = None, the default of
\* apply_unitary_effect_to_state and all to_unitary_matrix can do) a circuit
\* that has qubits, no measurement in the way and only operations that can be
\* simulated is simulated to the end: exactly its primitive unitaries are
\* applied, in batch order, and no gate error and no idle channel.
C19_RunsWithoutNoiseModel ==
    (Simulated /\ call.noise_model = None
        /\ outcome \notin {ValueError, IndexError}
        /\ ~HasUnsimulatable(prev)
        /\ ~(call.name = "apply_unitary_effect_to_state"
                 /\ all_qubits(prev) \cup call.qubits_that_should_be_present = {}))
        => /\ outcome = OK
           /\ \A n \in 1..Len(trace) : trace[n].kind = "unitary"
           /\ UnitariesApplied =
                  Flattened(reconstruct_moments(
                      extract_unitaries(all_operations(prev)).items))

\* the batches of the last simulation, as the applications tell
BatchesApplied == {trace[n].batch : n \in 1..Len(trace)}

IdlesOf(b) ==
    SelectSeq(trace, LAMBDA e : e.kind = "idle" /\ e.batch = b)

\* C20: in a simulation with noise the idle channel of a batch is one choice
\* for all qubits: for every batch and every qubit of the qubit order, in
\* order, the idle channel is picked by pick_long_idle_channel when the batch
\* has a gate on exactly two qubits and by pick_short_idle_channel when it
\* has none, whatever acted on the qubit itself.
C20_IdleChannelIsPerBatch ==
    (Returned("apply_unitary_effect_to_state") /\ outcome = OK) =>
        \A b \in BatchesApplied :
            LET two == \E n \in 1..Len(trace) :
                           /\ trace[n].kind = "unitary"
                           /\ trace[n].batch = b
                           /\ Len(trace[n].on) = 2
                idles == IdlesOf(b)
            IN  /\ Len(idles) = Cardinality(all_qubits(prev)
                                    \cup call.qubits_that_should_be_present)
                /\ \A k \in 1..Len(idles) :
                       /\ idles[k].on = <<k - 1>>
                       /\ idles[k].by = IF two THEN "pick_long_idle_channel"
                                        ELSE "pick_short_idle_channel"

\* a batch with a two-qubit gate gave the long idle channel to a qubit no
\* gate acted on, and the next batch, of one single-qubit gate, the short one
C20_Witness ==
    /\ Returned("apply_unitary_effect_to_state")
    /\ outcome = OK
    /\ moments = << <<CZab>>, <<Xa>> >>
    /\ call.qubits_that_should_be_present = {"c"}
    /\ \E n \in 1..Len(trace) :
           /\ trace[n].kind = "idle"
           /\ trace[n].batch = 1
           /\ trace[n].on = <<2>>
           /\ trace[n].by = "pick_long_idle_channel"
    /\ \E n \in 1..Len(trace) :
           /\ trace[n].kind = "idle"
           /\ trace[n].batch = 2
           /\ trace[n].by = "pick_short_idle_channel"

\* the operator list and the weights a class has for an idle time: the
\* subclasses of GenericQutritErrors have one operator list per idle time and
\* compute the weights from it, the other classes have one list of weights
\* per idle time over idle_channel_operators
IdleOperators(cls, time) ==
    IF isinstance_GenericQutritErrors(cls)
    THEN time \o "_idle_channel_operators"
    ELSE "idle_channel_operators"

IdleWeights(cls, time) ==
    IF isinstance_GenericQutritErrors(cls)
    THEN time \o "_idle_channel_operators"
    ELSE time \o "_idle_channel_weights"

IdleDrawnFrom(time) ==
    (Returned("pick_" \o time \o "_idle_channel") /\ outcome = OK) =>
        /\ ret[1].list = IdleOperators(call.noise_model, time)
        /\ ret[1] = instance(call.noise_model)[ret[1].list][trace[1].index + 1]
        /\ trace[1].weighted = IdleWeights(call.noise_model, time)

\* C21: for every noise model class pick_long_idle_channel returns an
\* operator of the long-idle set, at the index drawn from the weights of that
\* set, and pick_short_idle_channel an operator of the short-idle set, at the
\* index drawn from the short-idle weights.
C21_IdleOperatorOfItsOwnSet ==
    /\ IdleDrawnFrom("long")
    /\ IdleDrawnFrom("short")

\* a noise model was constructed although one of its four lists of weights
\* does not sum to 1 within 0.001
Malformed(cls) ==
    \/ weighted_draw_raises(instance(cls).single_qutrit_kraus_operator_weights)
    \/ weighted_draw_raises(instance(cls).two_qutrit_kraus_operator_weights)
    \/ weighted_draw_raises(instance(cls).long_idle_channel_weights)
           /\ ~isinstance_GenericQutritErrors(cls)
    \/ weighted_draw_raises(instance(cls).short_idle_channel_weights)
           /\ ~isinstance_GenericQutritErrors(cls)

\* C22: a noise model whose weights do not sum to 1 within 0.001 is rejected
\* at construction; on a constructed model no pick method fails because of
\* its weights, and every index drawn is an index of the operator list.
C22_WeightsCheckedAtConstruction ==
    /\ (pc = "ready" /\ call.name = "__init__" /\ outcome = OK)
           => ~Malformed(call.noise_model)
    /\ (pc = "returned" /\ call.name \in {"pick_single_qutrit_gate_channel",
            "pick_two_qutrit_gate_channel", "pick_long_idle_channel",
            "pick_short_idle_channel"})
           => /\ outcome # AssertionError
              /\ outcome = OK =>
                     /\ trace[1].index \in 0..(Len(instance(call.noise_model)[ret[1].list]) - 1)
                     /\ ret[1].index = trace[1].index

NoisySimulation ==
    Returned("apply_unitary_effect_to_state") /\ call.noise_model # None

\* the tensor that is live after the applications up to the n-th and the
\* swap that follows it, if one does
LiveAfter(n) ==
    IF n = 0 THEN StateTensor
    ELSE IF trace[n].swap THEN trace[n].out ELSE trace[n].state

\* the two tensors stay two, every application and every trial application
\* writes the one that is not live, and the result is the live one
ScratchOnly ==
    /\ \A n \in 1..Len(trace) :
           /\ {trace[n].state, trace[n].out} = {StateTensor, BufferTensor}
           /\ trace[n].state = LiveAfter(n - 1)
           /\ \A t \in 1..Len(trace[n].trials) :
                  /\ trace[n].trials[t].state = trace[n].state
                  /\ trace[n].trials[t].out = trace[n].out
    /\ outcome = OK => ret[2] = LiveAfter(Len(trace))

\* C23 as stated: one swap after each elementary application, the idle
\* channel and the renormalisation included
C23_SwapAfterEveryApplication ==
    NoisySimulation =>
        /\ ScratchOnly
        /\ \A n \in 1..Len(trace) :
               trace[n].kind \in {"unitary", "gate_error", "idle", "renormalize"}
                   => trace[n].swap

\* C23: the live state and the buffer are two tensors throughout; every
\* gate unitary, gate error, idle channel, renormalisation and trial
\* application writes the tensor that is not live; state and buffer are
\* swapped once after each gate unitary, each gate error and each
\* renormalisation, not between an idle channel and its renormalisation (the
\* two share one swap) and not after a trial application; the tensor
\* returned is the one live after the last swap.
C23_ScratchOnlyAndSwapPerStep ==
    NoisySimulation =>
        /\ ScratchOnly
        /\ \A n \in 1..Len(trace) :
               /\ trace[n].swap <=>
                      trace[n].kind \in {"unitary", "gate_error", "renormalize"}
               /\ trace[n].kind = "idle" =>
                      /\ n < Len(trace)
                      /\ trace[n + 1].kind = "renormalize"
                      /\ trace[n + 1].state = trace[n].state
                      /\ trace[n + 1].out = trace[n].out

\* a run under a model that computes its idle weights by trial applications:
\* one gate, its error, one idle channel after three trials, the
\* renormalisation; after three swaps the buffer of the start is returned
C23_Witness ==
    /\ NoisySimulation
    /\ outcome = OK
    /\ call.noise_model = "CurrentSuperconductingQCErrors"
    /\ moments = << <<Xa>> >>
    /\ call.qubits_that_should_be_present = {}
    /\ Len(trace) = 4
    /\ Len(trace[3].trials) = 3
    /\ ret[2] = BufferTensor

\* C24: in a simulation with noise every gate unitary on one qutrit is
\* followed at once by a gate error picked by pick_single_qutrit_gate_channel
\* from the single-qutrit operators, every gate unitary on two qutrits by one
\* picked by pick_two_qutrit_gate_channel from the two-qutrit operators, on
\* the axes of the gate; no gate error is applied otherwise; a matrix of any
\* other size ends the run with AssertionError and nothing is returned.
C24_GateErrorBySitesOfGate ==
    NoisySimulation =>
        /\ \A n \in 1..Len(trace) :
               /\ (trace[n].kind = "unitary" /\ Len(trace[n].on) \in {1, 2}) =>
                      /\ n < Len(trace)
                      /\ trace[n + 1].kind = "gate_error"
                      /\ trace[n + 1].on = trace[n].on
                      /\ trace[n + 1].batch = trace[n].batch
               /\ (trace[n].kind = "unitary" /\ Len(trace[n].on) \notin {1, 2}) =>
                      /\ n = Len(trace)
                      /\ outcome = AssertionError
                      /\ ret = <<>>
               /\ trace[n].kind = "gate_error" =>
                      /\ n > 1
                      /\ trace[n - 1].kind = "unitary"
                      /\ trace[n - 1].on = trace[n].on
                      /\ (trace[n].by = "pick_single_qutrit_gate_channel"
                             /\ trace[n].operators = {"single_qutrit_kraus_operators"})
                            <=> Len(trace[n].on) = 1
                      /\ (trace[n].by = "pick_two_qutrit_gate_channel"
                             /\ trace[n].operators = {"two_qutrit_kraus_operators"})
                            <=> Len(trace[n].on) = 2
        /\ (\E i \in 1..Len(prev) : CCZabc \in Range(prev[i]))
               => outcome # OK

\* a gate on one qutrit got its single-qutrit error, then a gate on three
\* qutrits ended the run
C24_Witness ==
    /\ NoisySimulation
    /\ outcome = AssertionError
    /\ moments = << <<Xa>>, <<CCZabc>> >>
    /\ trace[2].kind = "gate_error"
    /\ trace[2].by = "pick_single_qutrit_gate_channel"
    /\ trace[Len(trace)].kind = "unitary"
    /\ Len(trace[Len(trace)].on) = 3

\* the applications a run over the batches is to make, from batch b on: kind,
\* batch and axes
RECURSIVE ExpectedApplications(_, _, _)
ExpectedApplications(batches, b, qubits) ==
    IF b > Len(batches)
    THEN <<>>
    ELSE LET on(k) == [i \in 1..Len(batches[b][k].qs) |->
                          qubit_index(qubits, batches[b][k].qs[i])]
             gates == [j \in 1..(2 * Len(batches[b])) |->
                          [kind |-> IF j % 2 = 1 THEN "unitary" ELSE "gate_error",
                           batch |-> b, on |-> on((j + 1) \div 2)]]
             idles == [j \in 1..(2 * Len(qubits)) |->
                          [kind |-> IF j % 2 = 1 THEN "idle" ELSE "renormalize",
                           batch |-> b, on |-> <<(j - 1) \div 2>>]]
         IN  gates \o idles \o ExpectedApplications(batches, b + 1, qubits)

\* the number of times the live tensor changed
SwapsOf(log) ==
    Cardinality({n \in 1..Len(log) : log[n].swap /\ LiveAfter(n) # LiveAfter(n - 1)})

\* C25: a simulation with noise that runs to its end applies, batch after
\* batch in the order of reconstruct_moments: for every gate of the batch,
\* in order, its unitary and at once one gate error on the same axes; then,
\* for every qubit of the qubit order, touched or not, one idle channel and
\* at once its renormalisation; nothing else is renormalised.  With G gates,
\* B batches and N qubits state and buffer are swapped 2*G + B*N times.
C25_OrderOfApplications ==
    (NoisySimulation /\ outcome = OK) =>
        LET qubits == order_for(all_qubits(prev)
                          \cup call.qubits_that_should_be_present)
            items == extract_unitaries(all_operations(prev)).items
            batches == reconstruct_moments(items)
        IN  /\ [n \in 1..Len(trace) |->
                   [kind |-> trace[n].kind, batch |-> trace[n].batch,
                    on |-> trace[n].on]]
                   = ExpectedApplications(batches, 1, qubits)
            /\ SwapsOf(trace) = 2 * Len(items) + Len(batches) * Len(qubits)

\* two batches (the second X(a) waits for the first), three qubits of which
\* c is touched by no gate: 2*3 + 2*3 swaps
C25_Witness ==
    /\ NoisySimulation
    /\ outcome = OK
    /\ moments = << <<Xa, Xb>>, <<Xa>> >>
    /\ call.qubits_that_should_be_present = {"c"}
    /\ Len(trace) = 18
    /\ SwapsOf(trace) = 12
    /\ \E n \in 1..Len(trace) :
           trace[n].kind = "idle" /\ trace[n].on = <<2>> /\ trace[n].batch = 2

\* what one operation of the model is to contribute, read off the gates:
\* the pairs of its primitives, depth first and left to right
XOn(q) == Item(unitary(Op("X", <<q>>)), <<q>>)

PrimitivesOf(op) ==
    CASE op.gate \in {"X", "CZ", "XD", "CCZ"} -> <<Item(unitary(op), op.qubits)>>
      [] op.gate = "CX" ->
             <<XOn(op.qubits[2]), Item(unitary(Op("CZ", op.qubits)), op.qubits),
               XOn(op.qubits[2])>>
      [] op.gate = "F" ->
             <<XOn(op.qubits[2]), Item(unitary(Op("CZ", op.qubits)), op.qubits),
               XOn(op.qubits[2]),
               Item(unitary(Op("XD", <<op.qubits[2]>>)), <<op.qubits[2]>>),
               XOn(op.qubits[2])>>
      [] op.gate = "M" -> <<>>
      [] op.gate = "MI" -> [k \in 1..Len(op.qubits) |-> XOn(op.qubits[k])]
      [] OTHER -> <<>>

\* how the flattening of one operation is to end
EndOf(op) ==
    CASE op.gate \in {"T", "D", "E"} -> TypeError
      [] op.gate \in {"L", "P", "Q"} -> RecursionError
      [] OTHER -> OK

RECURSIVE PrimitivesOfAll(_)
PrimitivesOfAll(operations) ==
    IF operations = <<>> THEN <<>>
    ELSE PrimitivesOf(Head(operations)) \o PrimitivesOfAll(Tail(operations))

\* the first operation that does not end well decides
RECURSIVE EndOfAll(_)
EndOfAll(operations) ==
    IF operations = <<>> THEN OK
    ELSE IF EndOf(Head(operations)) # OK THEN EndOf(Head(operations))
    ELSE EndOfAll(Tail(operations))

Cyclic(operations) ==
    \E n \in 1..Len(operations) : operations[n].gate \in {"L", "P", "Q"}

Extracted == Returned("_extract_unitaries")

\* what holds of every flattening, with or without a cycle
ExtractsDepthFirst ==
    Extracted =>
        /\ outcome = EndOfAll(call.operations)
        /\ outcome = OK =>
               ret = <<PrimitivesOfAll(call.operations)>>

\* C26 as stated: a flattening that meets a cycle never comes to an end
C26_CycleNeverTerminates ==
    /\ ExtractsDepthFirst
    /\ (pc = "returned" /\ call.name = "_extract_unitaries")
           => ~Cyclic(call.operations)

\* C26: _extract_unitaries on operations whose decompositions are finite and
\* acyclic ends and yields the (matrix, qubits) pairs of the primitives depth
\* first and left to right; an operation with a matrix is yielded as it is
\* even when it has a decomposition; a measurement yields one X per qubit
\* whose invert_mask entry is set and nothing else.  There is no depth or
\* visited guard: a decomposition that leads back to itself nests generators
\* until the interpreter raises RecursionError, unless an operation before it
\* raised TypeError; it never ends with a list of pairs.
C26_DepthFirstOrRecursionError ==
    /\ ExtractsDepthFirst
    /\ (Extracted /\ Cyclic(call.operations)) =>
           /\ outcome \in {RecursionError, TypeError}
           /\ outcome = TypeError =>
                  \E n \in 1..Len(call.operations) :
                      /\ EndOf(call.operations[n]) = TypeError
                      /\ \A k \in 1..(n - 1) : ~Cyclic(<<call.operations[k]>>)

\* F brought a nested decomposition, an operation with both a matrix and a
\* decomposition and two measurements, and X(a) after it came last
C26_Witness ==
    /\ Extracted
    /\ call.operations = <<Fab, Xa>>
    /\ outcome = OK
    /\ Len(ret[1]) = 6
    /\ ret[1][4].mat.gate = "XD"
    /\ ret[1][6] = XOn("a")

\* a batch edit of a circuit of the unconstrained device returned
BatchEdited ==
    /\ Returned("batch_remove") \/ Returned("batch_insert_into")
    /\ device = UnconstrainedDevice

\* the (moment index, operation) pairs of the batch edit that returned
BatchPairs ==
    IF call.name = "batch_remove" THEN call.removals ELSE call.insert_intos

\* i is no index of the list the call started with, counted from either end
OutsideList(i) == i >= Len(prev) \/ i < -Len(prev)

\* C27 as stated: every index < 0 or >= len(circuit) raises IndexError
C27_NegativeIndexRaises ==
    (BatchEdited /\ Len(BatchPairs) > 0
        /\ (BatchPairs[1][1] < 0 \/ BatchPairs[1][1] >= Len(prev)))
        => (outcome = IndexError /\ moments = prev)

\* C27 (on a circuit of the unconstrained device, where no device rejects):
\* batch_remove and batch_insert_into index the moments as a Python
\* list.  An index >= len(circuit) or < -len(circuit) raises IndexError and
\* leaves the live circuit as it was, also after earlier pairs of the batch
\* were carried out on the copy; IndexError is raised for no other index.
\* An index in -len(circuit)..-1 addresses the moment counted from the end.
C27_IndexErrorOutsideListOnly ==
    BatchEdited =>
        /\ outcome = IndexError =>
               /\ moments = prev
               /\ \E k \in 1..Len(BatchPairs) : OutsideList(BatchPairs[k][1])
        /\ (Len(BatchPairs) > 0 /\ OutsideList(BatchPairs[1][1])) =>
               outcome = IndexError
        /\ (\A k \in 1..Len(BatchPairs) : ~OutsideList(BatchPairs[k][1])) =>
               outcome # IndexError
        /\ (Len(BatchPairs) = 1 /\ BatchPairs[1][1] < 0
                /\ ~OutsideList(BatchPairs[1][1]) /\ outcome = OK) =>
               LET j == Len(prev) + BatchPairs[1][1] + 1
                   op == BatchPairs[1][2]
               IN  /\ Len(moments) = Len(prev)
                   /\ \A m \in 1..Len(prev) : m # j => moments[m] = prev[m]
                   /\ Range(moments[j]) =
                          IF call.name = "batch_remove"
                          THEN Range(prev[j]) \ {op}
                          ELSE Range(prev[j]) \cup {op}
                   /\ moments[j] # prev[j]

\* the first removal was carried out on the copy, the second named the
\* moment after the last one: IndexError, and the live circuit is untouched
C27_Witness ==
    /\ Returned("batch_remove")
    /\ device = UnconstrainedDevice
    /\ outcome = IndexError
    /\ prev = << <<Xa>> >>
    /\ call.removals = << <<0, Xa>>, <<1, Xb>> >>
    /\ moments = prev

\* the input places of the items of all batches, batch after batch
RECURSIVE PlacesBatched(_)
PlacesBatched(places) ==
    IF places = <<>> THEN <<>> ELSE Head(places) \o PlacesBatched(Tail(places))

\* C28: the batches of reconstruct_moments hold every item of the input
\* exactly once, equal items as often as the input has them, and nothing
\* else; no batch is empty and an empty input gives no batch; the first item
\* left over is always taken into the next batch, so there are at most
\* len(input) rounds.
C28_BatchesPartitionInput ==
    Returned("reconstruct_moments") =>
        LET input == call.mat_and_qs_list
            places == PlacesBatched(trace)
        IN  /\ Len(places) = Len(input)
            /\ \A i \in 1..Len(input) :
                   Cardinality({n \in 1..Len(places) : places[n] = i}) = 1
            /\ Len(ret[1]) = Len(trace)
            /\ \A b \in 1..Len(trace) :
                   /\ Len(ret[1][b]) = Len(trace[b])
                   /\ Len(trace[b]) > 0
                   /\ \A k \in 1..Len(trace[b]) :
                          ret[1][b][k] = input[trace[b][k]]
                   /\ \A i \in 1..Len(input) :
                          (\A c \in 1..(b - 1) : \A k \in 1..Len(trace[c]) :
                               trace[c][k] # i)
                              => trace[b][1] <= i
            /\ input = <<>> => ret[1] = <<>>
            /\ Len(ret[1]) <= Len(input)

\* three equal items on one site take three rounds, one batch each
C28_Witness ==
    /\ Returned("reconstruct_moments")
    /\ call.mat_and_qs_list =
           <<Item("X", <<"A">>), Item("X", <<"A">>), Item("X", <<"A">>)>>
    /\ Len(ret[1]) = 3
    /\ \A b \in 1..3 : ret[1][b] = <<Item("X", <<"A">>)>>

WellFormed(st) == \A q \in DOMAIN st : st[q] \in {0, 1, 2}

\* the gate of the operation does not keep to the rules, or the operation
\* has a qutrit twice
Misused(op, st) ==
    \/ Len(op.qubits) # Cardinality(Range(op.qubits))
    \/ /\ ~applied_to_trits_raises(op.gate)
       /\ LET new_trits == applied_to_trits(op.gate,
                            [k \in 1..Len(op.qubits) |-> st[op.qubits[k]]])
          IN  \/ Len(new_trits) # Len(op.qubits)
              \/ \E k \in 1..Len(new_trits) : new_trits[k] \notin {0, 1, 2}

\* C29: a ternary state whose values are in {0,1,2} keeps them there through
\* every sequence of apply_to_ternary_state calls; a call changes only the
\* entries of the qutrits of its operation; and when the gate returns another
\* number of trits or a trit outside {0,1,2}, or the operation has a qutrit
\* twice, the call raises AssertionError and the state is as it was.
C29_TernaryStateWellFormed ==
    /\ WellFormed(state)
    /\ Returned("apply_to_ternary_state") =>
           /\ \A q \in Qubits :
                  q \notin Range(call.op.qubits) => state[q] = prev[q]
           /\ Misused(call.op, prev) =>
                  /\ outcome = AssertionError
                  /\ state = prev

\* the operations of a circuit one after the other on a state, a composite
\* operation replaced by what it decomposes into
RECURSIVE AppliedInOrder(_, _)
AppliedInOrder(operations, st) ==
    IF operations = <<>>
    THEN st
    ELSE LET op == Head(operations)
         IN  AppliedInOrder(Tail(operations),
                 IF op.gate = "Seq"
                 THEN AppliedInOrder(ternary_default_decompose(op), st)
                 ELSE apply_to_ternary_state(op, st).state)

\* C30: evaluate_ternary_circuit returns the state that applying the
\* operations of the circuit in moment order makes of a copy of input_state,
\* and leaves the caller's input_state as it was; without input_state it
\* returns what they make of the all-zero state over the qubits of the
\* circuit.
C30_EvaluateReturnsFinalState ==
    Returned("evaluate_ternary_circuit") =>
        /\ outcome = OK
        /\ state = prev
        /\ ret = <<AppliedInOrder(all_operations(call.circuit),
                       IF call.input_state = <<>>
                       THEN default_ternary_state(all_qubits(call.circuit))
                       ELSE call.input_state[1])>>

====
